---------------------------- MODULE Spec2Model ----------------------------
(***************************************************************************)
(* Model of the endee Go client's vector pipeline (index.go):              *)
(*   - UpsertWithContext with its sequential and concurrent paths,         *)
(*   - QueryWithContext with its validation, transport call and the        *)
(*     sequential and concurrent decoding of the response.                 *)
(* Positions are 0-based as in the Go code; a slice [lo:hi) is the record  *)
(* [lo |-> lo, hi |-> hi].                                                 *)
(***************************************************************************)
EXTENDS Integers, Sequences, FiniteSets, Bags, TLC

(***************************************************************************)
(* Program constants.                                                      *)
(***************************************************************************)
MaxVectorsPerBatch == 1000
MaxTopKAllowed == 512
MaxEfSearchAllowed == 1024
SequentialUpsertMax == 10
SubBatchCap == 100
SequentialDecodeMax == 50
MinTupleLen == 5

(***************************************************************************)
(* Bounds of the model.                                                    *)
(***************************************************************************)
\* largest runtime.NumCPU() explored
MaxCPU == 2
\* at most this many records of a batch differ from the plain valid record
MaxSpecial == 1

\* the special records of a batch whose validation is explored on its own
MaxDefects == 2
\* the declared dimension of the index used for upserts
Dim == 2

\* batch sizes explored: the thresholds 0, 10/11, 1000/1001 and sizes whose
\* plan has more sub-batches than workers (the 100-record cap)
BatchSizes == {0, 1, 10, 11, 201, 301, 1001}

\* HTTP statuses the server answers a request with
TransportStatuses == {200, 401}

\* the values of k and ef explored: both sides of every limit, and the
\* value 300 that lies between the limit of the tests' comment (256) and
\* MaxTopKAllowed
TopKs == {-1, 0, 1, 10, 256, 300, 512, 513}
Efs == {-1, 0, 128, 1024, 1025, 2000}

\* numbers of tuples in a query response: both sides of SequentialDecodeMax
ResponseSizes == {0, 1, 3, 50, 51}

\* floats are kept in hundredths: 100 is 1.0
FOne == 100

VARIABLES
    inputArray,   \* the batch: [n |-> length, kind |-> [position -> kind of record]]
    Dimension,    \* idx.Dimension
    numCPU,       \* runtime.NumCPU()
    ctxDone,      \* the caller's context has been cancelled
    pc,           \* where the calling goroutine is
    ret,          \* the error UpsertWithContext returned
    ncalls,       \* executeRequestWithContext calls issued
    n200,         \* calls that returned status 200
    nfailed,      \* runs of upsertSequential that returned an error
    sent,         \* the slices of inputArray that were put in a request body
    numWorkers,   \* upsertConcurrent: numWorkers
    batchSize,    \* upsertConcurrent: batchSize
    workChan,     \* buffered channel of slices (capacity numWorkers)
    workClosed,   \* close(workChan) has run
    resultChan,   \* buffered channel of errors (capacity numWorkers)
    resultClosed, \* close(resultChan) has run
    worker,       \* the worker goroutines: the bag of their states [st, batch, err]
    dispI,        \* the dispatcher's loop variable i
    dispSt,       \* the dispatcher goroutine: "idle", "run", "exit"
    errors,       \* the collector's errors slice: [len, first]
    SpaceType,    \* idx.SpaceType
    query,        \* the arguments of QueryWithContext
    results,      \* the response: [n |-> tuples, kind |-> [position -> kind of tuple]]
    qret,         \* what QueryWithContext returned: [results, err]
    processedResults, \* the output slice being filled
    dNumWorkers,  \* processResultsConcurrent: numWorkers
    dWorkChan,    \* buffered channel of work items (capacity numWorkers)
    dWorkClosed,  \* close(workChan) has run
    dResultChan,  \* buffered channel of decoded results (capacity len(results))
    dResultClosed,\* close(resultChan) has run
    dWorker,      \* the decode workers: the bag of their states [st, index]
    dDispI,       \* the dispatcher's loop variable i
    dDispSt,      \* the dispatcher goroutine: "idle", "run", "exit"
    dSends,       \* sends on resultChan so far
    input,        \* the arguments of a call of one of the other operations
    output        \* what that call returned

vars == <<inputArray, Dimension, numCPU, ctxDone, pc, ret, ncalls, n200, nfailed, sent,
          numWorkers, batchSize, workChan, workClosed, resultChan,
          resultClosed, worker, dispI, dispSt, errors,
          SpaceType, query, results, qret, processedResults, dNumWorkers,
          dWorkChan, dWorkClosed, dResultChan, dResultClosed, dWorker,
          dDispI, dDispSt, dSends, input, output>>

\* the call of an operation other than an upsert or a query
callVars == <<input, output>>

\* the variables of a query and of the decoding of its response
queryVars == <<SpaceType, query, results, qret, processedResults, dNumWorkers,
               dWorkChan, dWorkClosed, dResultChan, dResultClosed, dWorker,
               dDispI, dDispSt, dSends, callVars>>

decodeVars == <<dNumWorkers, dWorkChan, dWorkClosed, dResultChan, dResultClosed,
                dWorker, dDispI, dDispSt, dSends>>

concVars == <<numWorkers, batchSize, workChan, workClosed, resultChan,
              resultClosed, worker, dispI, dispSt, errors>>

(***************************************************************************)
(* Errors.  kind "nil" is Go's nil error; fmt.Errorf("...: %v", e) builds  *)
(* a plain error whose text holds e's text: kind "fmtError", wraps e.kind. *)
(***************************************************************************)
Err(kind, ref) == [kind |-> kind, ref |-> ref, wraps |-> "none"]
Nil == Err("nil", "")
WrapV(e) == [kind |-> "fmtError", ref |-> e.ref, wraps |-> e.kind]
IsErr(e) == e.kind # "nil"

\* errors.go checkError: status -> typed error
checkError(status) ==
    IF status = 200 THEN Nil
    ELSE IF status = 400 THEN Err("APIError", "400")
    ELSE IF status = 401 THEN Err("AuthenticationError", "")
    ELSE IF status = 402 THEN Err("SubscriptionError", "")
    ELSE IF status = 403 THEN Err("ForbiddenError", "")
    ELSE IF status = 404 THEN Err("NotFoundError", "")
    ELSE IF status = 409 THEN Err("ConflictError", "")
    ELSE IF status \in {500, 502, 503, 504} THEN Err("ServerError", "")
    ELSE Err("APIError", ToString(status))

(***************************************************************************)
(* Records of a batch.                                                     *)
(***************************************************************************)
Min(a, b) == IF a < b THEN a ELSE b

\* strings.TrimSpace on the ids of the model
TrimSpace(s) == IF s \in {"", " ", "  "} THEN "" ELSE s

\* the positions where a batch of n records may hold a special record
Positions(n) == {p \in {0, n \div 2, n - 1} : p >= 0 /\ p < n}

\* the id of the record at position p of a batch of n records: its position
IdAt(p, n) == ToString(p)

PlainVector == [i \in 1..Dimension |-> IF i = 1 THEN 1 ELSE 0]

ItemKinds == {"sparse", "emptyId", "blankId", "wrongDim", "onlyIndices",
              "onlyValues", "sparseLen", "badMeta"}

\* the kinds that change the control flow of an upsert (a record with
\* well-formed sparse data takes the same path as a plain record)
DefectKinds == ItemKinds \ {"sparse"}

\* the VectorItem of kind k at position p of a batch of n records
MakeItem(k, p, n) ==
    [ID |-> IF k = "emptyId" THEN "" ELSE IF k = "blankId" THEN " " ELSE IdAt(p, n),
     Vector |-> IF k = "wrongDim" THEN Tail(PlainVector) ELSE PlainVector,
     SparseIndices |-> IF k \in {"sparse", "sparseLen"} THEN <<1, 2>>
                       ELSE IF k = "onlyIndices" THEN <<1>> ELSE <<>>,
     SparseValues |-> IF k = "sparse" THEN <<5, 7>>
                      ELSE IF k \in {"onlyValues", "sparseLen"} THEN <<5>> ELSE <<>>,
     Meta |-> IF k = "badMeta" THEN "unmarshalable" ELSE "map"]

\* inputArray[p]
ItemAt(arr, p) ==
    IF p \in DOMAIN arr.kind THEN MakeItem(arr.kind[p], p, arr.n)
    ELSE MakeItem("plain", p, arr.n)

\* the positions of arr[lo:hi) that hold a special record, in order
SpecialIn(arr, lo, hi) == {p \in DOMAIN arr.kind : lo <= p /\ p < hi}

SetMin(S) == CHOOSE x \in S : \A y \in S : x <= y

(***************************************************************************)
(* normalizeVector, lines 171-202.  The vectors of the model have integral *)
(* components, norms and quotients, so float32 arithmetic is exact on them.*)
(***************************************************************************)
RECURSIVE SumSquares(_)
SumSquares(v) == IF v = <<>> THEN 0 ELSE Head(v) * Head(v) + SumSquares(Tail(v))

\* math.Sqrt, rounded down
Sqrt(x) == CHOOSE r \in 0..x : r * r <= x /\ (r + 1) * (r + 1) > x

\* a check that only rejects vectors that are too long
DimensionDiffers_Longer(vector) == Len(vector) > Dimension

\* the dimension check of line 173
DimensionDiffers(vector) == Len(vector) # Dimension

normalizeVector(vector) ==
    IF DimensionDiffers(vector)
    THEN [vector |-> <<>>, norm |-> 0, err |-> Err("DimensionMismatch", "")]
    ELSE IF SpaceType # "cosine"
    THEN [vector |-> vector, norm |-> 1, err |-> Nil]
    ELSE LET norm == Sqrt(SumSquares(vector))
         IN  IF norm = 0
             THEN [vector |-> vector, norm |-> 1, err |-> Nil]
             ELSE [vector |-> [i \in 1..Len(vector) |-> vector[i] \div norm],
                   norm |-> norm, err |-> Nil]

normalizeVectorErr(vector) == normalizeVector(vector).err

(***************************************************************************)
(* UpsertWithContext lines 219-236: the validation of one item and of the  *)
(* whole batch (the first defective item in batch order decides).          *)
(***************************************************************************)
ValidateItem(item, i) ==
    LET hasIndices == Len(item.SparseIndices) > 0
        hasValues == Len(item.SparseValues) > 0
    IN  IF TrimSpace(item.ID) = "" THEN Err("EmptyID", ToString(i))
        ELSE IF hasIndices # hasValues THEN Err("SparseTogether", item.ID)
        ELSE IF hasIndices /\ Len(item.SparseIndices) # Len(item.SparseValues)
             THEN Err("SparseLength", item.ID)
        ELSE Nil

\* a validation in which the last defective item decides
ValidateBatch_Last(arr) ==
    LET bad == {p \in DOMAIN arr.kind : IsErr(ValidateItem(ItemAt(arr, p), p))}
        last == CHOOSE x \in bad : \A y \in bad : y <= x
    IN  IF bad = {} THEN Nil ELSE ValidateItem(ItemAt(arr, last), last)

ValidateBatch(arr) ==
    LET bad == {p \in DOMAIN arr.kind : IsErr(ValidateItem(ItemAt(arr, p), p))}
    IN  IF bad = {} THEN Nil
        ELSE ValidateItem(ItemAt(arr, SetMin(bad)), SetMin(bad))

(***************************************************************************)
(* upsertSequential lines 250-293: the local part (normalize, compress,    *)
(* encode) over arr[lo:hi); the first failing item decides.                *)
(***************************************************************************)
EncodeItemErr(item) ==
    IF IsErr(normalizeVectorErr(item.Vector)) THEN normalizeVectorErr(item.Vector)
    ELSE IF item.Meta = "unmarshalable" THEN Err("CompressMetadata", "")
    ELSE Nil

EncodeErr(arr, lo, hi) ==
    LET bad == {p \in SpecialIn(arr, lo, hi) : IsErr(EncodeItemErr(ItemAt(arr, p)))}
    IN  IF bad = {} THEN Nil ELSE EncodeItemErr(ItemAt(arr, SetMin(bad)))

\* compression.go JsonZip on the metadata of the model
JsonZip(meta) == IF meta = "empty" THEN "" ELSE "zlib(" \o meta \o ")"

\* lines 272-284: the wire tuple of one item
vectorObj(item) ==
    <<item.ID, JsonZip(item.Meta), "json(filter)", normalizeVector(item.Vector).norm,
      normalizeVector(item.Vector).vector>>
    \o (IF Len(item.SparseIndices) > 0 /\ Len(item.SparseValues) > 0
        THEN <<item.SparseIndices, item.SparseValues>> ELSE <<>>)

\* lines 250-287: the request body upsertSequential builds from arr[lo:hi)
vectorBatch(arr, lo, hi) == [i \in 1..(hi - lo) |-> vectorObj(ItemAt(arr, lo + i - 1))]

(***************************************************************************)
(* The outcome of executeRequestWithContext + checkError for a request     *)
(* that went out: client.Do fails (the network, or the context cancelled   *)
(* while the request is in flight), or the server's status decides.  A     *)
(* request made with an already cancelled context fails in client.Do at    *)
(* once, without going out.                                                *)
(***************************************************************************)
TransportErr == Err("Transport", "")

CallOutcomes ==
    {[err |-> TransportErr, ok |-> FALSE]} \cup
    {[err |-> checkError(s), ok |-> (s = 200)] : s \in TransportStatuses}

(***************************************************************************)
(* upsertConcurrent lines 313-321: the plan.                               *)
(***************************************************************************)
\* a plan that rounds half the batch size down
PlanWorkers_Floor(n, cpus) == IF n < cpus * 2 THEN n \div 2 ELSE cpus

\* a plan with one worker more than there are CPUs
PlanWorkers_OverCPU(n, cpus) == cpus + 1

PlanWorkers(n, cpus) == IF n < cpus * 2 THEN (n + 1) \div 2 ELSE cpus

PlanBatchSize(n, nw) == Min((n + nw - 1) \div nw, SubBatchCap)

\* the number of iterations of the dispatch loop
PlannedSubBatches(n, bs) == (n + bs - 1) \div bs

\* a worker goroutine blocked in "range workChan"; the goroutines run the
\* same code and hold no identity, so the model keeps the bag of their states
RecvWorker == [st |-> "recv", batch |-> [lo |-> 0, hi |-> 0], err |-> Nil]

\* the bag ws with one worker in state old moved to state new
Move(ws, old, new) == (ws (-) SetToBag({old})) (+) SetToBag({new})

NoErrors == [len |-> 0, first |-> Nil]


NoQuery == [k |-> 0, ef |-> 0, vector |-> <<>>, sparseIndices |-> <<>>,
            sparseValues |-> <<>>, includeVectors |-> FALSE]

DecodeIdle ==
    /\ dNumWorkers = 0
    /\ dWorkChan = <<>>
    /\ dWorkClosed = FALSE
    /\ dResultChan = {}
    /\ dResultClosed = FALSE
    /\ dWorker = EmptyBag
    /\ dDispI = 0
    /\ dDispSt = "idle"
    /\ dSends = 0

(***************************************************************************)
(* Initial states of an upsert: a batch, a CPU count, nothing started.     *)
(***************************************************************************)
Batches ==
    UNION {{[n |-> n, kind |-> f] :
              f \in UNION {[S -> DefectKinds] :
                             S \in {T \in SUBSET Positions(n) : Cardinality(T) <= MaxSpecial}}} :
           n \in BatchSizes}

ConcIdle ==
    /\ numWorkers = 0
    /\ batchSize = 0
    /\ workChan = <<>>
    /\ workClosed = FALSE
    /\ resultChan = <<>>
    /\ resultClosed = FALSE
    /\ worker = EmptyBag
    /\ dispI = 0
    /\ dispSt = "idle"
    /\ errors = NoErrors

\* no other operation is in progress
NoCall == [op |-> "none"]

CallIdle == input = NoCall /\ output = NoCall

\* no query is in progress
QueryIdle ==
    /\ CallIdle
    /\ SpaceType = "cosine"
    /\ query = NoQuery
    /\ results = [n |-> 0, kind |-> <<>>]
    /\ qret = [results |-> <<>>, err |-> Nil]
    /\ processedResults = <<>>
    /\ DecodeIdle

Init ==
    /\ Dimension = Dim
    /\ QueryIdle
    /\ inputArray \in Batches
    /\ numCPU \in 1..MaxCPU
    /\ ctxDone = FALSE
    /\ pc = "entry"
    /\ ret = Nil
    /\ ncalls = 0
    /\ n200 = 0
    /\ nfailed = 0
    /\ sent = {}
    /\ ConcIdle

(***************************************************************************)
(* The caller cancels the context; this may happen at any moment.          *)
(***************************************************************************)
Cancel ==
    /\ ~ctxDone
    /\ pc # "done"
    /\ ctxDone' = TRUE
    /\ UNCHANGED <<inputArray, Dimension, numCPU, pc, ret, ncalls, n200, nfailed, sent, concVars, queryVars>>

(***************************************************************************)
(* UpsertWithContext lines 211-245, up to the first blocking operation:    *)
(* the size check, the empty batch, the validation loop, and then either   *)
(* upsertSequential up to its request or the start of upsertConcurrent     *)
(* (plan, channels, workers, dispatcher, closer).                          *)
(***************************************************************************)
Return(e) ==
    /\ pc' = "done"
    /\ ret' = e

\* the size check with the limit itself rejected
TooLarge_Geq(n) == n >= MaxVectorsPerBatch

\* line 211
TooLarge(n) == n > MaxVectorsPerBatch

\* the path choice with a batch of exactly 10 records sent to the workers
IsSmallBatch_Lt(n) == n < SequentialUpsertMax

\* line 239
IsSmallBatch(n) == n <= SequentialUpsertMax

UpsertTooLarge ==
    /\ pc = "entry"
    /\ TooLarge(inputArray.n)
    /\ Return(Err("BatchTooLarge", ""))
    /\ UNCHANGED <<inputArray, Dimension, numCPU, ctxDone, ncalls, n200, nfailed, sent, concVars, queryVars>>

UpsertEmpty ==
    /\ pc = "entry"
    /\ ~TooLarge(inputArray.n)
    /\ inputArray.n = 0
    /\ Return(Nil)
    /\ UNCHANGED <<inputArray, Dimension, numCPU, ctxDone, ncalls, n200, nfailed, sent, concVars, queryVars>>

UpsertInvalid ==
    /\ pc = "entry"
    /\ ~TooLarge(inputArray.n)
    /\ inputArray.n # 0
    /\ IsErr(ValidateBatch(inputArray))
    /\ Return(ValidateBatch(inputArray))
    /\ UNCHANGED <<inputArray, Dimension, numCPU, ctxDone, ncalls, n200, nfailed, sent, concVars, queryVars>>

Validated ==
    /\ pc = "entry"
    /\ ~TooLarge(inputArray.n)
    /\ inputArray.n # 0
    /\ ~IsErr(ValidateBatch(inputArray))

\* upsertSequential on the whole batch fails before its request
SeqEncodeFails ==
    /\ Validated
    /\ IsSmallBatch(inputArray.n)
    /\ IsErr(EncodeErr(inputArray, 0, inputArray.n))
    /\ Return(EncodeErr(inputArray, 0, inputArray.n))
    /\ nfailed' = nfailed + 1
    /\ UNCHANGED <<inputArray, Dimension, numCPU, ctxDone, ncalls, n200, sent, concVars, queryVars>>

\* upsertSequential on the whole batch issues its one request
SeqIssue ==
    /\ Validated
    /\ IsSmallBatch(inputArray.n)
    /\ ~IsErr(EncodeErr(inputArray, 0, inputArray.n))
    /\ ncalls' = ncalls + 1
    /\ sent' = sent \cup {[lo |-> 0, hi |-> inputArray.n]}
    /\ IF ctxDone
       THEN Return(TransportErr) /\ nfailed' = nfailed + 1
       ELSE pc' = "seqCall" /\ UNCHANGED <<ret, nfailed>>
    /\ UNCHANGED <<inputArray, Dimension, numCPU, ctxDone, n200, concVars, queryVars>>

\* the request of the sequential path returns; checkError decides
SeqReturn ==
    /\ pc = "seqCall"
    /\ \E o \in CallOutcomes :
          /\ Return(o.err)
          /\ n200' = IF o.ok THEN n200 + 1 ELSE n200
          /\ nfailed' = IF IsErr(o.err) THEN nfailed + 1 ELSE nfailed
    /\ UNCHANGED <<inputArray, Dimension, numCPU, ctxDone, ncalls, sent, concVars, queryVars>>

\* upsertConcurrent lines 313-363: plan, make the channels, start the goroutines
ConcStart ==
    /\ Validated
    /\ ~IsSmallBatch(inputArray.n)
    /\ LET nw == PlanWorkers(inputArray.n, numCPU)
       IN  /\ numWorkers' = nw
           /\ batchSize' = PlanBatchSize(inputArray.n, nw)
           /\ worker' = [ws \in {RecvWorker} |-> nw]
    /\ pc' = "conc"
    /\ dispSt' = "run"
    /\ dispI' = 0
    /\ UNCHANGED <<inputArray, Dimension, numCPU, ctxDone, ret, ncalls, n200, nfailed, sent,
                   workChan, workClosed, resultChan, resultClosed, errors, queryVars>>

(***************************************************************************)
(* The dispatcher goroutine, lines 343-357.                                *)
(***************************************************************************)
\* select case workChan <- inputArray[i:end]
DispatchSend ==
    /\ dispSt = "run"
    /\ dispI < inputArray.n
    /\ Len(workChan) < numWorkers
    /\ workChan' = Append(workChan,
                          [lo |-> dispI, hi |-> Min(dispI + batchSize, inputArray.n)])
    /\ dispI' = dispI + batchSize
    /\ UNCHANGED <<inputArray, Dimension, numCPU, ctxDone, pc, ret, ncalls, n200, nfailed, sent,
                   numWorkers, batchSize, workClosed, resultChan, resultClosed,
                   worker, dispSt, errors, queryVars>>

\* select case <-ctx.Done(): return, and the deferred close(workChan)
DispatchCancelled ==
    /\ dispSt = "run"
    /\ dispI < inputArray.n
    /\ ctxDone
    /\ dispSt' = "exit"
    /\ workClosed' = TRUE
    /\ UNCHANGED <<inputArray, Dimension, numCPU, ctxDone, pc, ret, ncalls, n200, nfailed, sent,
                   numWorkers, batchSize, workChan, resultChan, resultClosed,
                   worker, dispI, errors, queryVars>>

\* the loop ends: the deferred close(workChan)
DispatchClose ==
    /\ dispSt = "run"
    /\ dispI >= inputArray.n
    /\ dispSt' = "exit"
    /\ workClosed' = TRUE
    /\ UNCHANGED <<inputArray, Dimension, numCPU, ctxDone, pc, ret, ncalls, n200, nfailed, sent,
                   numWorkers, batchSize, workChan, resultChan, resultClosed,
                   worker, dispI, errors, queryVars>>

(***************************************************************************)
(* A worker goroutine, lines 331-339.                                      *)
(***************************************************************************)
\* batch := <-workChan; upsertSequential(ctx, batch) up to its request
WorkerRecv(w) ==
    /\ w.st = "recv"
    /\ workChan # <<>>
    /\ LET batch == Head(workChan)
           e == EncodeErr(inputArray, batch.lo, batch.hi)
       IN  /\ workChan' = Tail(workChan)
           /\ IF batch.hi - batch.lo > 0
              THEN IF IsErr(e)
                   THEN /\ worker' = Move(worker, w, [st |-> "send", batch |-> batch, err |-> e])
                        /\ nfailed' = nfailed + 1
                        /\ UNCHANGED <<ncalls, sent>>
                   ELSE /\ worker' = Move(worker, w,
                                        IF ctxDone
                                        THEN [st |-> "send", batch |-> batch, err |-> TransportErr]
                                        ELSE [st |-> "call", batch |-> batch, err |-> Nil])
                        /\ nfailed' = IF ctxDone THEN nfailed + 1 ELSE nfailed
                        /\ ncalls' = ncalls + 1
                        /\ sent' = sent \cup {batch}
              ELSE UNCHANGED <<worker, ncalls, sent, nfailed>>
    /\ UNCHANGED <<inputArray, Dimension, numCPU, ctxDone, pc, ret, n200,
                   numWorkers, batchSize, workClosed, resultChan, resultClosed,
                   dispI, dispSt, errors, queryVars>>

\* the request returns; checkError decides the error of the sub-batch
WorkerReturn(w) ==
    /\ w.st = "call"
    /\ \E o \in CallOutcomes :
          /\ worker' = Move(worker, w, [w EXCEPT !.st = "send", !.err = o.err])
          /\ n200' = IF o.ok THEN n200 + 1 ELSE n200
          /\ nfailed' = IF IsErr(o.err) THEN nfailed + 1 ELSE nfailed
    /\ UNCHANGED <<inputArray, Dimension, numCPU, ctxDone, pc, ret, ncalls, sent,
                   numWorkers, batchSize, workChan, workClosed, resultChan,
                   resultClosed, dispI, dispSt, errors, queryVars>>

\* resultChan <- err
WorkerSend(w) ==
    /\ w.st = "send"
    /\ Len(resultChan) < numWorkers
    /\ resultChan' = Append(resultChan, w.err)
    /\ worker' = Move(worker, w, RecvWorker)
    /\ UNCHANGED <<inputArray, Dimension, numCPU, ctxDone, pc, ret, ncalls, n200, nfailed, sent,
                   numWorkers, batchSize, workChan, workClosed, resultClosed,
                   dispI, dispSt, errors, queryVars>>

\* range workChan ends: the channel is closed and drained; wg.Done()
WorkerExit(w) ==
    /\ w.st = "recv"
    /\ workChan = <<>>
    /\ workClosed
    /\ worker' = Move(worker, w, [w EXCEPT !.st = "exit"])
    /\ UNCHANGED <<inputArray, Dimension, numCPU, ctxDone, pc, ret, ncalls, n200, nfailed, sent,
                   numWorkers, batchSize, workChan, workClosed, resultChan,
                   resultClosed, dispI, dispSt, errors, queryVars>>

(***************************************************************************)
(* The closer goroutine, lines 360-363: wg.Wait(); close(resultChan).      *)
(***************************************************************************)
CloseResults ==
    /\ pc \in {"conc", "done"}
    /\ numWorkers > 0
    /\ ~resultClosed
    /\ \A w \in BagToSet(worker) : w.st = "exit"
    /\ resultClosed' = TRUE
    /\ UNCHANGED <<inputArray, Dimension, numCPU, ctxDone, pc, ret, ncalls, n200, nfailed, sent,
                   numWorkers, batchSize, workChan, workClosed, resultChan,
                   worker, dispI, dispSt, errors, queryVars>>

(***************************************************************************)
(* The collector, lines 366-377, run by the calling goroutine.             *)
(***************************************************************************)
\* an error list that shows the latest error at its head
AppendError_Last(errs, e) == [len |-> errs.len + 1, first |-> e]

\* errors = append(errors, err): the code reads len(errors) and errors[0] only
AppendError(errs, e) ==
    [len |-> errs.len + 1, first |-> IF errs.len = 0 THEN e ELSE errs.first]

\* a collector that starts reading only after the workers are done
Collect_AfterClose ==
    /\ pc = "conc"
    /\ resultChan # <<>>
    /\ resultClosed
    /\ errors' = IF IsErr(Head(resultChan)) THEN AppendError(errors, Head(resultChan))
                 ELSE errors
    /\ resultChan' = Tail(resultChan)
    /\ UNCHANGED <<inputArray, Dimension, numCPU, ctxDone, pc, ret, ncalls, n200, nfailed, sent,
                   numWorkers, batchSize, workChan, workClosed, resultClosed,
                   worker, dispI, dispSt, queryVars>>

Collect ==
    /\ pc = "conc"
    /\ resultChan # <<>>
    /\ errors' = IF IsErr(Head(resultChan)) THEN AppendError(errors, Head(resultChan))
                 ELSE errors
    /\ resultChan' = Tail(resultChan)
    /\ UNCHANGED <<inputArray, Dimension, numCPU, ctxDone, pc, ret, ncalls, n200, nfailed, sent,
                   numWorkers, batchSize, workChan, workClosed, resultClosed,
                   worker, dispI, dispSt, queryVars>>

\* the result with a single failed sub-batch overlooked
ConcResult_MoreThanOne(errs) == IF errs.len > 1 THEN WrapV(errs.first) ELSE Nil

\* what upsertConcurrent returns once resultChan is closed and drained
ConcResult(errs) == IF errs.len > 0 THEN WrapV(errs.first) ELSE Nil

\* a collector that returns as soon as it holds an error
CollectDone_Early ==
    /\ pc = "conc"
    /\ errors.len > 0
    /\ Return(ConcResult(errors))
    /\ UNCHANGED <<inputArray, Dimension, numCPU, ctxDone, ncalls, n200, nfailed, sent, concVars, queryVars>>

CollectDone ==
    /\ pc = "conc"
    /\ resultChan = <<>>
    /\ resultClosed
    /\ Return(ConcResult(errors))
    /\ UNCHANGED <<inputArray, Dimension, numCPU, ctxDone, ncalls, n200, nfailed, sent, concVars, queryVars>>

Next ==
    \/ Cancel
    \/ UpsertTooLarge
    \/ UpsertEmpty
    \/ UpsertInvalid
    \/ SeqEncodeFails
    \/ SeqIssue
    \/ SeqReturn
    \/ ConcStart
    \/ DispatchSend
    \/ DispatchCancelled
    \/ DispatchClose
    \/ \E w \in BagToSet(worker) : WorkerRecv(w)
    \/ \E w \in BagToSet(worker) : WorkerReturn(w)
    \/ \E w \in BagToSet(worker) : WorkerSend(w)
    \/ \E w \in BagToSet(worker) : WorkerExit(w)
    \/ CloseResults
    \/ Collect
    \/ CollectDone

Spec == Init /\ [][Next]_vars


(***************************************************************************)
(* The entry of UpsertWithContext over every batch size: the size check,   *)
(* the validation, the sequential path and the plan of the concurrent path *)
(* (whose goroutines are not run here).                                    *)
(***************************************************************************)
\* the batch sizes explored at the entry: around 0, SequentialUpsertMax,
\* SubBatchCap and MaxVectorsPerBatch
PlanSizes == (0..12) \cup {99, 100, 101, 200, 201, 999, 1000, 1001, 1002}

PlanBatches ==
    UNION {{[n |-> n, kind |-> f] :
              f \in UNION {[S -> DefectKinds] :
                             S \in {T \in SUBSET Positions(n) : Cardinality(T) <= MaxSpecial}}} :
           n \in PlanSizes}

InitPlan ==
    /\ Dimension = Dim
    /\ QueryIdle
    /\ inputArray \in PlanBatches
    /\ numCPU \in 1..MaxCPU
    /\ ctxDone = FALSE
    /\ pc = "entry"
    /\ ret = Nil
    /\ ncalls = 0
    /\ n200 = 0
    /\ nfailed = 0
    /\ sent = {}
    /\ ConcIdle

NextPlan ==
    \/ Cancel
    \/ UpsertTooLarge
    \/ UpsertEmpty
    \/ UpsertInvalid
    \/ SeqEncodeFails
    \/ SeqIssue
    \/ SeqReturn
    \/ ConcStart

SpecPlan == InitPlan /\ [][NextPlan]_vars


(***************************************************************************)
(* The validation loop of UpsertWithContext over batches that hold up to   *)
(* MaxDefects special records, of every kind, so that a defective record   *)
(* may follow another one or a record with well-formed sparse data.        *)
(***************************************************************************)
ValidateSizes == {0, 1, 3, 10, 11, 12, 1001}

ValidateBatches ==
    UNION {{[n |-> n, kind |-> f] :
              f \in UNION {[S -> ItemKinds] :
                             S \in {T \in SUBSET Positions(n) : Cardinality(T) <= MaxDefects}}} :
           n \in ValidateSizes}

InitValidate ==
    /\ Dimension = Dim
    /\ QueryIdle
    /\ inputArray \in ValidateBatches
    /\ numCPU = 1
    /\ ctxDone = FALSE
    /\ pc = "entry"
    /\ ret = Nil
    /\ ncalls = 0
    /\ n200 = 0
    /\ nfailed = 0
    /\ sent = {}
    /\ ConcIdle

NextValidate ==
    \/ Cancel
    \/ UpsertTooLarge
    \/ UpsertEmpty
    \/ UpsertInvalid
    \/ SeqEncodeFails
    \/ SeqIssue
    \/ SeqReturn
    \/ ConcStart

SpecValidate == InitValidate /\ [][NextValidate]_vars

(***************************************************************************)
(* QueryWithContext, lines 396-427: the local validation, in the order of  *)
(* the code.                                                               *)
(***************************************************************************)
\* a bound that also rejects k = MaxTopKAllowed
TopKOutOfRange_Geq(k) == k <= 0 \/ k >= MaxTopKAllowed

\* the bound of the comment in TestQuery, "k > 256"
TopKOutOfRange_Half(k) == k <= 0 \/ k > MaxTopKAllowed \div 2

\* line 398
TopKOutOfRange(k) == k <= 0 \/ k > MaxTopKAllowed

\* line 401
EfOutOfRange(ef) == ef < 0 \/ ef > MaxEfSearchAllowed

\* line 410
NoQueryData(hasDense, hasSparseIndices) == ~hasDense /\ ~hasSparseIndices

QueryValidate(q) ==
    LET hasDense == Len(q.vector) > 0
        hasSparseIndices == Len(q.sparseIndices) > 0
        hasSparseValues == Len(q.sparseValues) > 0
    IN  IF TopKOutOfRange(q.k) THEN Err("TopK", "")
        ELSE IF EfOutOfRange(q.ef) THEN Err("Ef", "")
        ELSE IF NoQueryData(hasDense, hasSparseIndices) THEN Err("NoData", "")
        ELSE IF hasSparseIndices # hasSparseValues THEN Err("SparseTogether", "")
        ELSE IF hasSparseIndices /\ Len(q.sparseIndices) # Len(q.sparseValues)
             THEN Err("SparseLength", "")
        ELSE normalizeVector(q.vector).err

(***************************************************************************)
(* The tuples of a response.  An element is [t, n, s, l]: its wire type,   *)
(* and its number, text or list.                                           *)
(***************************************************************************)
EFloat(n) == [t |-> "float", n |-> n, s |-> "", l |-> <<>>]
EStr(x) == [t |-> "string", n |-> 0, s |-> x, l |-> <<>>]
EBytes(x) == [t |-> "bytes", n |-> 0, s |-> x, l |-> <<>>]
EList(x) == [t |-> "list", n |-> 0, s |-> "", l |-> x]

\* short: fewer than MinTupleLen elements; withVector: a sixth element
TupleKinds == {"short", "withVector"}

\* badMeta: metadata bytes that are not a zlib stream; badJson: a zlib stream
\* that does not hold JSON; badFilter: a filter string that is not JSON
FieldKinds == {"badMeta", "badJson", "badFilter"}

\* the well-formed tuple of position p: similarity falls with the position
PlainTuple(p) ==
    <<EFloat(FOne - p), EStr(ToString(p)), EBytes(JsonZip("map")), EStr("json(map)"),
      EFloat(FOne)>>

MakeTuple(k, p) ==
    IF k = "short" THEN SubSeq(PlainTuple(p), 1, MinTupleLen - 1)
    ELSE IF k = "withVector" THEN Append(PlainTuple(p), EList(<<EFloat(FOne), EFloat(0)>>))
    ELSE IF k = "badMeta" THEN [PlainTuple(p) EXCEPT ![3] = EBytes("garbage")]
    ELSE IF k = "badJson" THEN [PlainTuple(p) EXCEPT ![3] = EBytes(JsonZip("notjson"))]
    ELSE IF k = "badFilter" THEN [PlainTuple(p) EXCEPT ![4] = EStr("{notjson")]
    ELSE PlainTuple(p)

\* results[p]
TupleAt(res, p) ==
    IF p \in DOMAIN res.kind THEN MakeTuple(res.kind[p], p) ELSE PlainTuple(p)

\* toFloat32, lines 939-969
toFloat32(e) == IF e.t \in {"float", "int"} THEN e.n ELSE 0

\* safeStringConvert, lines 924-936
safeStringConvert(e) ==
    IF e.t = "nil" THEN ""
    ELSE IF e.t \in {"string", "bytes"} THEN e.s
    ELSE "%v"

\* compression.go JsonUnzip on the byte strings of the model
JsonUnzip(b) ==
    IF b = "" THEN [meta |-> "{}", ok |-> TRUE, err |-> Nil]
    ELSE IF b = JsonZip("map") THEN [meta |-> "map", ok |-> TRUE, err |-> Nil]
    ELSE IF b = JsonZip("notjson") THEN [meta |-> "nil", ok |-> FALSE, err |-> Err("json", "")]
    ELSE [meta |-> "nil", ok |-> FALSE, err |-> Err("zlib", "")]

\* json.Unmarshal of a filter string
FilterUnmarshal(x) ==
    IF x = "json(map)" THEN [filter |-> "map", ok |-> TRUE]
    ELSE [filter |-> "nil", ok |-> FALSE]

\* the zero value of QueryResult
ZeroResult ==
    [ID |-> "", Similarity |-> 0, Distance |-> 0, Meta |-> "nil", Filter |-> "nil",
     Norm |-> 0, Vector |-> <<>>]

\* the fields both decoders build the same way: lines 496-509 and 523-544 of
\* QueryWithContext, lines 641-678 of processResult
DecodeFields(result) ==
    LET similarity == toFloat32(result[1])
        metaDataBytes == IF result[3].t \in {"string", "bytes"} THEN result[3].s ELSE ""
        filterStr == safeStringConvert(result[4])
    IN  [ID |-> safeStringConvert(result[2]),
         Similarity |-> similarity,
         Distance |-> FOne - similarity,
         Meta |-> IF Len(metaDataBytes) > 0 /\ JsonUnzip(metaDataBytes).ok
                  THEN JsonUnzip(metaDataBytes).meta ELSE "nil",
         Filter |-> IF filterStr # "" /\ FilterUnmarshal(filterStr).ok
                    THEN FilterUnmarshal(filterStr).filter ELSE "nil",
         Norm |-> toFloat32(result[5]),
         Vector |-> <<>>]

\* the vector of the sixth element, lines 513-520 and 682-689, for a sixth
\* element that is nil or a list (any other makes the type assertion panic,
\* see VectorAssertPanics)
VectorData(result) ==
    IF Len(result) > MinTupleLen /\ result[MinTupleLen + 1].t # "nil"
    THEN [j \in DOMAIN result[MinTupleLen + 1].l |-> toFloat32(result[MinTupleLen + 1].l[j])]
    ELSE <<>>

\* a decoding that keeps the vector of the tuple whatever was requested
VectorField_Always(result, includeVectors) == VectorData(result)

\* lines 680-694: the vector field of an outcome
VectorField(result, includeVectors) ==
    IF includeVectors THEN VectorData(result) ELSE <<>>

\* a decoding in which metadata or a filter that cannot be decoded is an error
processResult_Strict(result, includeVectors) ==
    IF Len(result) < MinTupleLen
    THEN [data |-> ZeroResult, err |-> Err("InvalidResultFormat", ToString(Len(result)))]
    ELSE IF DecodeFields(result).Meta = "nil" \/ DecodeFields(result).Filter = "nil"
    THEN [data |-> ZeroResult, err |-> Err("InvalidField", "")]
    ELSE [data |-> [DecodeFields(result) EXCEPT
                       !.Vector = VectorField(result, includeVectors)],
          err |-> Nil]

\* processResult, lines 636-697
processResult(result, includeVectors) ==
    IF Len(result) < MinTupleLen
    THEN [data |-> ZeroResult, err |-> Err("InvalidResultFormat", ToString(Len(result)))]
    ELSE [data |-> [DecodeFields(result) EXCEPT
                       !.Vector = VectorField(result, includeVectors)],
          err |-> Nil]

\* the sequential decoding of results[lo..n), lines 491-559
RECURSIVE SequentialDecode(_, _, _)
SequentialDecode(res, lo, includeVectors) ==
    IF lo >= res.n THEN <<>>
    ELSE LET result == TupleAt(res, lo)
             rest == SequentialDecode(res, lo + 1, includeVectors)
         IN  IF Len(result) < MinTupleLen THEN rest
             ELSE <<[DecodeFields(result) EXCEPT
                        !.Vector = IF includeVectors THEN VectorData(result) ELSE <<>>]>>
                  \o rest

(***************************************************************************)
(* QueryWithContext up to the decoding of the response.                    *)
(***************************************************************************)
QReturn(rs, e) ==
    /\ pc' = "done"
    /\ qret' = [results |-> rs, err |-> e]

upsertVars == <<inputArray, ret, n200, nfailed, sent, concVars, callVars>>

\* lines 398-427: a validation error
QueryReject ==
    /\ pc = "qEntry"
    /\ IsErr(QueryValidate(query))
    /\ QReturn(<<>>, QueryValidate(query))
    /\ UNCHANGED <<Dimension, numCPU, ctxDone, ncalls, upsertVars, SpaceType, query,
                   results, processedResults, decodeVars>>

\* lines 431-459: the request is built and made
QueryIssue ==
    /\ pc = "qEntry"
    /\ ~IsErr(QueryValidate(query))
    /\ ncalls' = ncalls + 1
    /\ IF ctxDone THEN QReturn(<<>>, TransportErr) ELSE pc' = "qCall" /\ UNCHANGED qret
    /\ UNCHANGED <<Dimension, numCPU, ctxDone, upsertVars, SpaceType, query,
                   results, processedResults, decodeVars>>

\* lines 456-479: the request fails, or the body cannot be read or decoded
QueryCallFails ==
    /\ pc = "qCall"
    /\ \E e \in {o.err : o \in {c \in CallOutcomes : ~c.ok}} \cup {Err("Unmarshal", "")} :
          QReturn(<<>>, e)
    /\ UNCHANGED <<Dimension, numCPU, ctxDone, ncalls, upsertVars, SpaceType, query,
                   results, processedResults, decodeVars>>

\* status 200 and a body that decodes into the tuples of results
QueryResponse ==
    /\ pc = "qCall"
    /\ pc' = "qDecode"
    /\ UNCHANGED <<Dimension, numCPU, ctxDone, ncalls, upsertVars, queryVars>>

\* a path choice that sends a response of exactly 50 tuples to the workers
IsLargeResponse_Geq(n) == n >= SequentialDecodeMax

\* line 486
IsLargeResponse(n) == n > SequentialDecodeMax

\* lines 491-565: the sequential decoding
DecodeSequential ==
    /\ pc = "qDecode"
    /\ ~IsLargeResponse(results.n)
    /\ processedResults' = SequentialDecode(results, 0, query.includeVectors)
    /\ QReturn(processedResults', Nil)
    /\ UNCHANGED <<Dimension, numCPU, ctxDone, ncalls, upsertVars, SpaceType, query,
                   results, decodeVars>>

(***************************************************************************)
(* processResultsConcurrent, lines 569-633.                                *)
(***************************************************************************)
DRecvWorker == [st |-> "recv", index |-> 0]

\* lines 570-624: plan, channels, goroutines, the pre-sized output
DecodeStart ==
    /\ pc = "qDecode"
    /\ IsLargeResponse(results.n)
    /\ pc' = "qCollect"
    /\ dNumWorkers' = PlanWorkers(results.n, numCPU)
    /\ dWorker' = [ws \in {DRecvWorker} |-> PlanWorkers(results.n, numCPU)]
    /\ dDispSt' = "run"
    /\ dDispI' = 0
    /\ processedResults' = [i \in 1..results.n |-> ZeroResult]
    /\ UNCHANGED <<Dimension, numCPU, ctxDone, ncalls, upsertVars, SpaceType, query,
                   results, qret, dWorkChan, dWorkClosed, dResultChan, dResultClosed,
                   dSends>>

\* select case workChan <- workItem{i, result}
DDispatchSend ==
    /\ dDispSt = "run"
    /\ dDispI < results.n
    /\ Len(dWorkChan) < dNumWorkers
    /\ dWorkChan' = Append(dWorkChan, dDispI)
    /\ dDispI' = dDispI + 1
    /\ UNCHANGED <<Dimension, numCPU, ctxDone, pc, ncalls, upsertVars, SpaceType, query,
                   results, qret, processedResults, dNumWorkers, dWorkClosed,
                   dResultChan, dResultClosed, dWorker, dDispSt, dSends>>

\* select case <-ctx.Done(): return, and the deferred close(workChan)
DDispatchCancelled ==
    /\ dDispSt = "run"
    /\ dDispI < results.n
    /\ ctxDone
    /\ dDispSt' = "exit"
    /\ dWorkClosed' = TRUE
    /\ UNCHANGED <<Dimension, numCPU, ctxDone, pc, ncalls, upsertVars, SpaceType, query,
                   results, qret, processedResults, dNumWorkers, dWorkChan,
                   dResultChan, dResultClosed, dWorker, dDispI, dSends>>

\* the loop ends: the deferred close(workChan)
DDispatchClose ==
    /\ dDispSt = "run"
    /\ dDispI >= results.n
    /\ dDispSt' = "exit"
    /\ dWorkClosed' = TRUE
    /\ UNCHANGED <<Dimension, numCPU, ctxDone, pc, ncalls, upsertVars, SpaceType, query,
                   results, qret, processedResults, dNumWorkers, dWorkChan,
                   dResultChan, dResultClosed, dWorker, dDispI, dSends>>

\* work := <-workChan
DWorkerRecv(w) ==
    /\ w.st = "recv"
    /\ dWorkChan # <<>>
    /\ dWorker' = Move(dWorker, w, [st |-> "decode", index |-> Head(dWorkChan)])
    /\ dWorkChan' = Tail(dWorkChan)
    /\ UNCHANGED <<Dimension, numCPU, ctxDone, pc, ncalls, upsertVars, SpaceType, query,
                   results, qret, processedResults, dNumWorkers, dWorkClosed,
                   dResultChan, dResultClosed, dDispI, dDispSt, dSends>>

\* what a worker sends for the work item of position index, lines 595-600
WorkerResult(index) ==
    [index |-> index,
     data |-> processResult(TupleAt(results, index), query.includeVectors).data,
     err |-> processResult(TupleAt(results, index), query.includeVectors).err]

\* a result channel as small as the one of upsertConcurrent
ResultChanCap_Workers(n, nw) == nw

\* line 586: the capacity of resultChan for n tuples and nw workers
ResultChanCap(n, nw) == n

\* len(resultChan); once the collector has returned it reads nothing any more
\* and the channel holds at most what was sent so far
Unread == IF pc = "done" THEN dSends ELSE Cardinality(dResultChan)

\* processResult(work.result), then resultChan <- {work.index, processed, err}.
\* Once the collector has returned nobody reads resultChan again: what is sent
\* from then on is counted in dSends and its content dropped.
DWorkerSend(w) ==
    /\ w.st = "decode"
    /\ Unread < ResultChanCap(results.n, dNumWorkers)
    /\ dResultChan' = IF pc = "done" THEN dResultChan
                      ELSE dResultChan \cup {WorkerResult(w.index)}
    /\ dSends' = dSends + 1
    /\ dWorker' = Move(dWorker, w, DRecvWorker)
    /\ UNCHANGED <<Dimension, numCPU, ctxDone, pc, ncalls, upsertVars, SpaceType, query,
                   results, qret, processedResults, dNumWorkers, dWorkChan,
                   dWorkClosed, dResultClosed, dDispI, dDispSt>>

\* range workChan ends; wg.Done()
DWorkerExit(w) ==
    /\ w.st = "recv"
    /\ dWorkChan = <<>>
    /\ dWorkClosed
    /\ dWorker' = Move(dWorker, w, [w EXCEPT !.st = "exit"])
    /\ UNCHANGED <<Dimension, numCPU, ctxDone, pc, ncalls, upsertVars, SpaceType, query,
                   results, qret, processedResults, dNumWorkers, dWorkChan,
                   dWorkClosed, dResultChan, dResultClosed, dDispI, dDispSt, dSends>>

\* wg.Wait(); close(resultChan)
DCloseResults ==
    /\ dNumWorkers > 0
    /\ ~dResultClosed
    /\ \A w \in BagToSet(dWorker) : w.st = "exit"
    /\ dResultClosed' = TRUE
    /\ UNCHANGED <<Dimension, numCPU, ctxDone, pc, ncalls, upsertVars, SpaceType, query,
                   results, qret, processedResults, dNumWorkers, dWorkChan,
                   dWorkClosed, dResultChan, dWorker, dDispI, dDispSt, dSends>>

\* processedResults[r.index] = r.data
StoreResult(out, r) == [out EXCEPT ![r.index + 1] = r.data]

\* one iteration of the collector's loop, lines 625-630; with return nil, r.err
\* the local processedResults goes out of scope
DCollect ==
    /\ pc = "qCollect"
    /\ \E r \in dResultChan :
          /\ dResultChan' = dResultChan \ {r}
          /\ IF IsErr(r.err)
             THEN QReturn(<<>>, r.err) /\ processedResults' = <<>>
             ELSE /\ processedResults' = StoreResult(processedResults, r)
                  /\ UNCHANGED <<pc, qret>>
    /\ UNCHANGED <<Dimension, numCPU, ctxDone, ncalls, upsertVars, SpaceType, query,
                   results, dNumWorkers, dWorkChan, dWorkClosed, dResultClosed,
                   dWorker, dDispI, dDispSt, dSends>>

\* resultChan is closed and drained: return processedResults, nil
DCollectDone ==
    /\ pc = "qCollect"
    /\ dResultChan = {}
    /\ dResultClosed
    /\ QReturn(processedResults, Nil)
    /\ UNCHANGED <<Dimension, numCPU, ctxDone, ncalls, upsertVars, SpaceType, query,
                   results, processedResults, decodeVars>>

\* the caller cancels the context of a query, at a moment at which the code can
\* still observe it: before the decoding starts, or while the dispatcher of the
\* decoding selects (which may be after QueryWithContext has returned)
CancelQuery ==
    /\ ~ctxDone
    /\ pc \in {"qEntry", "qCall", "qDecode"} \/ (dDispSt = "run" /\ dDispI < results.n)
    /\ ctxDone' = TRUE
    /\ UNCHANGED <<Dimension, numCPU, pc, ncalls, upsertVars, queryVars>>

(***************************************************************************)
(* A query from its entry to its return, with responses that are decoded   *)
(* sequentially.                                                           *)
(***************************************************************************)
SpaceTypes == {"cosine", "l2", "ip"}

\* the dense vectors of a query: none, one of the declared dimension, one
\* component too many
QueryVectors == {<<>>, PlainVector, PlainVector \o <<0>>}

\* the sparse data of a query: none, consistent, one of the two only,
\* different lengths
SparsePairs == {<< <<>>, <<>> >>, << <<1, 2>>, <<5, 7>> >>, << <<1>>, <<>> >>,
                << <<>>, <<5>> >>, << <<1, 2>>, <<5>> >>}

Queries ==
    {[k |-> k, ef |-> ef, vector |-> v, sparseIndices |-> sp[1], sparseValues |-> sp[2],
      includeVectors |-> iv] :
        k \in TopKs, ef \in Efs, v \in QueryVectors, sp \in SparsePairs, iv \in BOOLEAN}

Responses(sizes) ==
    UNION {{[n |-> n, kind |-> f] :
              f \in UNION {[S -> TupleKinds] :
                             S \in {T \in SUBSET Positions(n) : Cardinality(T) <= MaxSpecial}}} :
           n \in sizes}

UpsertIdle ==
    /\ CallIdle
    /\ inputArray = [n |-> 0, kind |-> <<>>]
    /\ ret = Nil
    /\ n200 = 0
    /\ nfailed = 0
    /\ sent = {}
    /\ ConcIdle

InitQuery ==
    /\ UpsertIdle
    /\ Dimension \in {0, Dim}
    /\ SpaceType \in SpaceTypes
    /\ numCPU = 1
    /\ ctxDone = FALSE
    /\ pc = "qEntry"
    /\ ncalls = 0
    /\ query \in Queries
    /\ results \in Responses({0, 3})
    /\ qret = [results |-> <<>>, err |-> Nil]
    /\ processedResults = <<>>
    /\ DecodeIdle

NextQuery ==
    \/ CancelQuery
    \/ QueryReject
    \/ QueryIssue
    \/ QueryCallFails
    \/ QueryResponse
    \/ DecodeSequential

SpecQuery == InitQuery /\ [][NextQuery]_vars

(***************************************************************************)
(* The decoding of a response, from the moment QueryWithContext has        *)
(* received and unmarshalled it.  resultChan holds len(results) entries,   *)
(* so a send never blocks, and the collector is its only reader: receiving *)
(* a result commutes with every step of the other goroutines.  The         *)
(* collector therefore runs as soon as a result is there (it has priority  *)
(* in NextDecode), which leaves every order of sends, and with it every    *)
(* order in which the collector can see the results; the channel then      *)
(* holds at most one entry while the collector reads it and is kept as the *)
(* set of its entries.                                                     *)
(***************************************************************************)
InitDecode ==
    /\ UpsertIdle
    /\ Dimension = Dim
    /\ SpaceType = "cosine"
    /\ numCPU \in 1..MaxCPU
    /\ ctxDone = FALSE
    /\ pc = "qDecode"
    /\ ncalls = 1
    /\ query \in {[k |-> 10, ef |-> 128, vector |-> PlainVector, sparseIndices |-> <<>>,
                   sparseValues |-> <<>>, includeVectors |-> iv] : iv \in BOOLEAN}
    /\ results \in Responses(ResponseSizes)
    /\ qret = [results |-> <<>>, err |-> Nil]
    /\ processedResults = <<>>
    /\ DecodeIdle

CollectorReady == pc = "qCollect" /\ (dResultChan # {} \/ dResultClosed)

NextDecode ==
    \/ DCollect
    \/ DCollectDone
    \/ ~CollectorReady /\ CancelQuery
    \/ ~CollectorReady /\ DecodeSequential
    \/ ~CollectorReady /\ DecodeStart
    \/ ~CollectorReady /\ DDispatchSend
    \/ ~CollectorReady /\ DDispatchCancelled
    \/ ~CollectorReady /\ DDispatchClose
    \/ ~CollectorReady /\ \E w \in BagToSet(dWorker) : DWorkerRecv(w)
    \/ ~CollectorReady /\ \E w \in BagToSet(dWorker) : DWorkerSend(w)
    \/ ~CollectorReady /\ \E w \in BagToSet(dWorker) : DWorkerExit(w)
    \/ ~CollectorReady /\ DCloseResults

SpecDecode == InitDecode /\ [][NextDecode]_vars

(***************************************************************************)
(* The decoding of responses in which a tuple holds metadata or a filter   *)
(* that cannot be decoded, on both paths, vectors not requested.           *)
(***************************************************************************)
FieldSizes == {3, 50, 51}

FieldResponses ==
    UNION {{[n |-> n, kind |-> f] :
              f \in UNION {[S -> FieldKinds] :
                             S \in {T \in SUBSET Positions(n) : Cardinality(T) <= MaxSpecial}}} :
           n \in FieldSizes}

InitFields ==
    /\ UpsertIdle
    /\ Dimension = Dim
    /\ SpaceType = "cosine"
    /\ numCPU \in 1..MaxCPU
    /\ ctxDone = FALSE
    /\ pc = "qDecode"
    /\ ncalls = 1
    /\ query = [k |-> 10, ef |-> 128, vector |-> PlainVector, sparseIndices |-> <<>>,
                sparseValues |-> <<>>, includeVectors |-> FALSE]
    /\ results \in FieldResponses
    /\ qret = [results |-> <<>>, err |-> Nil]
    /\ processedResults = <<>>
    /\ DecodeIdle

SpecFields == InitFields /\ [][NextDecode]_vars

(***************************************************************************)
(* The operations below are called on their own: input holds the arguments *)
(* of the call, output what it returned.                                   *)
(***************************************************************************)
CallReturn(out) ==
    /\ pc' = "done"
    /\ output' = out

\* the state before such a call: no upsert and no query in progress
CallInit ==
    /\ inputArray = [n |-> 0, kind |-> <<>>]
    /\ ret = Nil
    /\ n200 = 0
    /\ nfailed = 0
    /\ sent = {}
    /\ ConcIdle
    /\ query = NoQuery
    /\ results = [n |-> 0, kind |-> <<>>]
    /\ qret = [results |-> <<>>, err |-> Nil]
    /\ processedResults = <<>>
    /\ DecodeIdle
    /\ numCPU = 1
    /\ ctxDone = FALSE
    /\ ncalls = 0
    /\ pc = "call"
    /\ output = NoCall

\* the index of the model
IndexInit == Dimension = Dim /\ SpaceType = "cosine"

otherVars == <<inputArray, Dimension, numCPU, ctxDone, ncalls, ret, n200, nfailed, sent,
               concVars, SpaceType, query, results, qret, processedResults, decodeVars>>

(***************************************************************************)
(* errors.go checkError on a response: its status, and whether its body    *)
(* can be read.                                                            *)
(***************************************************************************)
Statuses == 100..599

\* lines 71-79 before the table of lines 98-115
checkErrorResp(resp) ==
    IF resp.status = 200 THEN Nil
    ELSE IF ~resp.bodyOk THEN Err("ReadErrorResponse", "")
    ELSE checkError(resp.status)

CheckErrorCall ==
    /\ pc = "call"
    /\ input.op = "checkError"
    /\ CallReturn(checkErrorResp(input))
    /\ UNCHANGED <<input, otherVars>>

InitStatus ==
    /\ CallInit
    /\ IndexInit
    /\ input \in {[op |-> "checkError", status |-> s, bodyOk |-> b] :
                    s \in Statuses, b \in BOOLEAN}

NextStatus == CheckErrorCall

SpecStatus == InitStatus /\ [][NextStatus]_vars

(***************************************************************************)
(* endee.go ListIndexesWithContext, lines 387-420.  A call is decided by   *)
(* what the transport does (client.Do fails, or a status) and by the body: *)
(* kind "empty", "notjson", "null", or "object" with its indixes field     *)
(* [t, l]: "absent", "null", "string", or "list" with the entries l.  A    *)
(* slice is [nil, l]: nil or not, and its entries.                         *)
(***************************************************************************)
ListStatuses == {200, 201, 204, 401, 404, 500}

IndexLists == {<<>>, <<"a">>, <<"a", "b">>}

NilSlice == [nil |-> TRUE, l |-> <<>>]

Slice(l) == [nil |-> FALSE, l |-> l]

ListBodies ==
    {[kind |-> k, indixes |-> [t |-> "absent", l |-> <<>>]] :
        k \in {"empty", "notjson", "null"}}
    \cup {[kind |-> "object", indixes |-> [t |-> x, l |-> <<>>]] :
            x \in {"absent", "null", "string"}}
    \cup {[kind |-> "object", indixes |-> [t |-> "list", l |-> x]] : x \in IndexLists}

\* fastJSONUnmarshal(buf.Bytes(), &response), lines 409-412
DecodeListIndexes(body) ==
    IF body.kind \in {"empty", "notjson"} THEN [Indexes |-> NilSlice, err |-> Err("Decode", "")]
    ELSE IF body.kind = "null" THEN [Indexes |-> NilSlice, err |-> Nil]
    ELSE IF body.indixes.t = "string" THEN [Indexes |-> NilSlice, err |-> Err("Decode", "")]
    ELSE IF body.indixes.t \in {"absent", "null"} THEN [Indexes |-> NilSlice, err |-> Nil]
    ELSE [Indexes |-> Slice(body.indixes.l), err |-> Nil]

\* a return that hands the decoded slice over as it is
NonNilList_Keep(s) == s

\* lines 415-419
NonNilList(s) == IF s.nil THEN Slice(<<>>) ELSE s

ListIndexesWithContext(in) ==
    IF in.doErr THEN [list |-> NilSlice, err |-> TransportErr]
    ELSE IF in.status # 200 THEN [list |-> NilSlice, err |-> Err("Status", ToString(in.status))]
    ELSE IF IsErr(DecodeListIndexes(in.body).err)
    THEN [list |-> NilSlice, err |-> WrapV(DecodeListIndexes(in.body).err)]
    ELSE [list |-> NonNilList(DecodeListIndexes(in.body).Indexes), err |-> Nil]

ListIndexesCall ==
    /\ pc = "call"
    /\ input.op = "ListIndexes"
    /\ CallReturn(ListIndexesWithContext(input))
    /\ ncalls' = ncalls + 1
    /\ UNCHANGED <<input, inputArray, Dimension, numCPU, ctxDone, ret, n200, nfailed, sent,
                   concVars, SpaceType, query, results, qret, processedResults, decodeVars>>

InitList ==
    /\ CallInit
    /\ IndexInit
    /\ input \in {[op |-> "ListIndexes", doErr |-> d, status |-> s, body |-> b] :
                    d \in BOOLEAN, s \in ListStatuses, b \in ListBodies}

NextList == ListIndexesCall

SpecList == InitList /\ [][NextList]_vars

(***************************************************************************)
(* endee.go CreateIndexWithContext, lines 328-380.  An index name is       *)
(* [len, odd]: its length in bytes and the position of its one character   *)
(* outside [a-zA-Z0-9_], 0 when it has none.                               *)
(***************************************************************************)
MaxIndexNameLenAllowed == 48

MaxDimensionAllowed == 10000

NameLens == {0, 1, 2, 47, 48, 49, 60}

Names == {nm \in [len : NameLens, odd : {0, 1, 2, 47, 48, 60}] : nm.odd <= nm.len}

\* NameRegex ^[a-zA-Z0-9_]+$, constants.go line 107
NameRegexMatch(name) == name.len >= 1 /\ name.odd = 0

\* isValidIndexName, lines 99-104
isValidIndexName(name) ==
    IF name.len = 0 \/ name.len >= MaxIndexNameLenAllowed THEN FALSE
    ELSE NameRegexMatch(name)

\* strings.ToLower on the space types of the model
ToLower(st) == IF st = "Cosine" THEN "cosine" ELSE st

validSpaceTypes == {"cosine", "l2", "ip"}

\* lines 329-343: the local validation
CreateIndexValidate(in) ==
    IF ~isValidIndexName(in.name) THEN Err("InvalidName", "")
    ELSE IF in.dimension > MaxDimensionAllowed THEN Err("DimensionTooLarge", "")
    ELSE IF ToLower(in.spaceType) \notin validSpaceTypes THEN Err("InvalidSpaceType", "")
    ELSE Nil

\* lines 373-379: the request and readResponseBody
CreateIndexTransport(in) ==
    IF in.doErr THEN TransportErr ELSE checkError(in.status)

CreateIndexCall ==
    /\ pc = "call"
    /\ input.op = "CreateIndex"
    /\ IF IsErr(CreateIndexValidate(input))
       THEN CallReturn([err |-> CreateIndexValidate(input)]) /\ UNCHANGED ncalls
       ELSE CallReturn([err |-> CreateIndexTransport(input)]) /\ ncalls' = ncalls + 1
    /\ UNCHANGED <<input, inputArray, Dimension, numCPU, ctxDone, ret, n200, nfailed, sent,
                   concVars, SpaceType, query, results, qret, processedResults, decodeVars>>

InitCreate ==
    /\ CallInit
    /\ IndexInit
    /\ input \in {[op |-> "CreateIndex", name |-> nm, dimension |-> d, spaceType |-> st,
                   doErr |-> e, status |-> s] :
                    nm \in Names, d \in {0, 128, MaxDimensionAllowed, MaxDimensionAllowed + 1},
                    st \in {"cosine", "Cosine", "l2", "ip", "euclid"},
                    e \in BOOLEAN, s \in {200, 401, 409}}

NextCreate == CreateIndexCall

SpecCreate == InitCreate /\ [][NextCreate]_vars

(***************************************************************************)
(* normalizeVector on the memory of its caller.  A heap maps the address   *)
(* of a backing array to its content; the caller's vector is at address    *)
(* CallerAddr, and a returned slice is the address of its backing array    *)
(* (NilAddr for nil).                                                      *)
(***************************************************************************)
NilAddr == 0

CallerAddr == 1

\* an allocation that hands back the array of src itself
NewSlice_Alias(heap, src) == [addr |-> src, heap |-> heap]

\* lines 194-195: make([]float32, len(vector)) and copy
NewSlice(heap, src) ==
    LET a == CHOOSE x \in 1..(Cardinality(DOMAIN heap) + 1) : x \notin DOMAIN heap
    IN  [addr |-> a, heap |-> heap @@ (a :> heap[src])]

\* lines 171-202 on the heap
normalizeVectorInPlace(heap, in) ==
    LET vector == heap[in]
    IN  IF DimensionDiffers(vector)
        THEN [addr |-> NilAddr, norm |-> 0, err |-> Err("DimensionMismatch", ""), heap |-> heap]
        ELSE IF SpaceType # "cosine"
        THEN [addr |-> in, norm |-> 1, err |-> Nil, heap |-> heap]
        ELSE LET norm == Sqrt(SumSquares(vector))
                 new == NewSlice(heap, in)
             IN  IF norm = 0
                 THEN [addr |-> in, norm |-> 1, err |-> Nil, heap |-> heap]
                 ELSE [addr |-> new.addr, norm |-> norm, err |-> Nil,
                       heap |-> [new.heap EXCEPT
                                   ![new.addr] = [i \in DOMAIN vector |->
                                                     new.heap[new.addr][i] \div norm]]]

\* the vectors normalizeVector is called on: of every length up to one more
\* than the largest dimension, with at most one component that is not 0 (so
\* norms and quotients are integral)
MaxLen == Dim + 1

Components == {-2, -1, 1, 2, 3}

AxisVectors ==
    UNION {{[i \in 1..n |-> 0]} \cup
           {[i \in 1..n |-> IF i = p THEN c ELSE 0] : p \in 1..n, c \in Components} :
           n \in 0..MaxLen}

NormalizeCall ==
    /\ pc = "call"
    /\ input.op = "normalizeVector"
    /\ CallReturn(normalizeVectorInPlace((CallerAddr :> input.vector), CallerAddr))
    /\ UNCHANGED <<input, otherVars>>

InitNormalize ==
    /\ CallInit
    /\ Dimension \in 1..Dim
    /\ SpaceType \in SpaceTypes
    /\ input \in {[op |-> "normalizeVector", vector |-> v] : v \in AxisVectors}

NextNormalize == NormalizeCall

SpecNormalize == InitNormalize /\ [][NextNormalize]_vars

(***************************************************************************)
(* The plan of upsertConcurrent (lines 313-321) over every batch size that *)
(* takes the concurrent path and over CPU counts on both sides of half the *)
(* batch size.                                                             *)
(***************************************************************************)
WorkerSizes == (SequentialUpsertMax + 1)..MaxVectorsPerBatch

\* values of runtime.NumCPU()
WorkerCPUs == {1, 2, 5, 6, 7, 8, 64, 499, 500, 501, 1000, 4096}

InitWorkers ==
    /\ Dimension = Dim
    /\ QueryIdle
    /\ inputArray \in {[n |-> n, kind |-> <<>>] : n \in WorkerSizes}
    /\ numCPU \in WorkerCPUs
    /\ ctxDone = FALSE
    /\ pc = "entry"
    /\ ret = Nil
    /\ ncalls = 0
    /\ n200 = 0
    /\ nfailed = 0
    /\ sent = {}
    /\ ConcIdle

NextWorkers == ConcStart

SpecWorkers == InitWorkers /\ [][NextWorkers]_vars

(***************************************************************************)
(* The request bodies of the two paths for the same batch: the body        *)
(* upsertSequential builds from the whole batch (lines 250-287), and the   *)
(* bodies it builds from the slices the dispatcher of upsertConcurrent     *)
(* cuts (lines 345-349), in dispatch order.                                *)
(***************************************************************************)
\* a dispatch loop whose slices overlap by one record
RECURSIVE DispatchSlices_Overlap(_, _, _)
DispatchSlices_Overlap(i, n, bs) ==
    IF i >= n THEN <<>>
    ELSE <<[lo |-> i, hi |-> Min(i + bs + 1, n)]>> \o DispatchSlices_Overlap(i + bs, n, bs)

\* lines 345-349: the slices inputArray[i:end] from position i on
RECURSIVE DispatchSlices(_, _, _)
DispatchSlices(i, n, bs) ==
    IF i >= n THEN <<>>
    ELSE <<[lo |-> i, hi |-> Min(i + bs, n)]>> \o DispatchSlices(i + bs, n, bs)

\* the bodies of the slices, one after the other
RECURSIVE ConcatBodies(_, _)
ConcatBodies(arr, slices) ==
    IF slices = <<>> THEN <<>>
    ELSE vectorBatch(arr, Head(slices).lo, Head(slices).hi) \o ConcatBodies(arr, Tail(slices))

\* batch sizes of the concurrent path: one, two and several sub-batches, and
\* the 100-record cap
EncodeSizes == {11, 12, 13, 100, 101, 201, 250, 301, 1000}

\* batches that encode: plain records and records with sparse data
EncodeBatches ==
    UNION {{[n |-> n, kind |-> f] :
              f \in UNION {[S -> {"sparse"}] :
                             S \in {T \in SUBSET Positions(n) : Cardinality(T) <= MaxDefects}}} :
           n \in EncodeSizes}

EncodeCall ==
    /\ pc = "call"
    /\ input.op = "encode"
    /\ LET n == input.arr.n
           nw == PlanWorkers(n, input.cpus)
           bs == PlanBatchSize(n, nw)
       IN  CallReturn([sequential |-> vectorBatch(input.arr, 0, n),
                       concurrent |-> ConcatBodies(input.arr, DispatchSlices(0, n, bs)),
                       slices |-> Len(DispatchSlices(0, n, bs))])
    /\ UNCHANGED <<input, otherVars>>

InitEncode ==
    /\ CallInit
    /\ IndexInit
    /\ input \in {[op |-> "encode", arr |-> b, cpus |-> c] :
                     b \in EncodeBatches, c \in 1..MaxCPU}

NextEncode == EncodeCall

SpecEncode == InitEncode /\ [][NextEncode]_vars

(***************************************************************************)
(* An upsert under fair scheduling: the Go scheduler lets every goroutine  *)
(* that can take a step take one eventually (the dispatcher, the workers,  *)
(* the closer, the calling goroutine), and every request returns.  The     *)
(* caller's cancellation is not obliged to happen.                         *)
(***************************************************************************)
\* a worker can take a sub-batch: ENABLED of the workers' receive
WorkerRecvEnabled == workChan # <<>> /\ \E w \in BagToSet(worker) : w.st = "recv"

\* weak fairness of the workers' receive, with its enabling condition written out
WorkerRecvFair ==
    \/ []<>(~WorkerRecvEnabled)
    \/ []<><<\E w \in BagToSet(worker) : WorkerRecv(w)>>_vars

Fairness ==
    /\ WF_vars(DispatchSend \/ DispatchCancelled \/ DispatchClose)
    /\ WorkerRecvFair
    /\ WF_vars(\E w \in BagToSet(worker) : WorkerReturn(w))
    /\ WF_vars(\E w \in BagToSet(worker) : WorkerSend(w))
    /\ WF_vars(\E w \in BagToSet(worker) : WorkerExit(w))
    /\ WF_vars(CloseResults)
    /\ WF_vars(Collect)
    /\ WF_vars(CollectDone)
    /\ WF_vars(SeqReturn)

SpecLive == Init /\ [][Next]_vars /\ Fairness

(***************************************************************************)
(* The decoding under fair scheduling: every goroutine of                  *)
(* processResultsConcurrent that can take a step takes one eventually,     *)
(* also after QueryWithContext has returned.                               *)
(***************************************************************************)
DecodeFairness ==
    /\ WF_vars(DCollect)
    /\ WF_vars(DCollectDone)
    /\ WF_vars(~CollectorReady /\ (DDispatchSend \/ DDispatchCancelled \/ DDispatchClose))
    /\ WF_vars(~CollectorReady /\ \E w \in BagToSet(dWorker) : DWorkerRecv(w))
    /\ WF_vars(~CollectorReady /\ \E w \in BagToSet(dWorker) : DWorkerSend(w))
    /\ WF_vars(~CollectorReady /\ \E w \in BagToSet(dWorker) : DWorkerExit(w))
    /\ WF_vars(~CollectorReady /\ DCloseResults)

\* responses on both sides of SequentialDecodeMax, plain or with one short tuple
LiveSizes == {3, 51}

LiveResponses ==
    UNION {{[n |-> n, kind |-> f] :
              f \in UNION {[S -> {"short"}] :
                             S \in {T \in SUBSET Positions(n) : Cardinality(T) <= MaxSpecial}}} :
           n \in LiveSizes}

InitDecodeLive ==
    /\ UpsertIdle
    /\ Dimension = Dim
    /\ SpaceType = "cosine"
    /\ numCPU \in 1..MaxCPU
    /\ ctxDone = FALSE
    /\ pc = "qDecode"
    /\ ncalls = 1
    /\ query = [k |-> 10, ef |-> 128, vector |-> PlainVector, sparseIndices |-> <<>>,
                sparseValues |-> <<>>, includeVectors |-> FALSE]
    /\ results \in LiveResponses
    /\ qret = [results |-> <<>>, err |-> Nil]
    /\ processedResults = <<>>
    /\ DecodeIdle

SpecDecodeLive == InitDecodeLive /\ [][NextDecode]_vars /\ DecodeFairness

(***************************************************************************)
(* The decoding of one tuple of at least MinTupleLen elements on either    *)
(* path, over every kind of element msgpack can deliver.  An outcome is    *)
(* [kind, data]: "decoded", "error" (processResult's error), or "panic"    *)
(* (the goroutine panics, which ends the program).                         *)
(***************************************************************************)
ENil == [t |-> "nil", n |-> 0, s |-> "", l |-> <<>>]
EOther == [t |-> "bool", n |-> 0, s |-> "", l |-> <<>>]

\* one element of each kind: number, string, bytes, list, nil, other
ElementValues ==
    {EFloat(FOne), EStr("json(map)"), EBytes(JsonZip("map")),
     EList(<<EFloat(FOne), EStr("x")>>), ENil, EOther}

\* tuples of MinTupleLen elements, and tuples with a sixth element
Tuples ==
    [1..MinTupleLen -> ElementValues] \cup [1..(MinTupleLen + 1) -> ElementValues]

\* lines 513 and 682: result[5].([]interface{}) panics unless result[5] is a list
VectorAssertPanics(result) == result[MinTupleLen + 1].t # "list"

Outcome(kind, data) == [kind |-> kind, data |-> data]

\* one iteration of the sequential loop, lines 491-559, for len(result) >= 5
sequentialOutcome(result, includeVectors) ==
    IF Len(result) > MinTupleLen /\ result[MinTupleLen + 1].t # "nil"
       /\ VectorAssertPanics(result)
    THEN Outcome("panic", ZeroResult)
    ELSE Outcome("decoded", [DecodeFields(result) EXCEPT
                                !.Vector = VectorField(result, includeVectors)])

\* a worker's processResult, lines 636-697
concurrentOutcome(result, includeVectors) ==
    IF includeVectors /\ Len(result) > MinTupleLen /\ result[MinTupleLen + 1].t # "nil"
       /\ VectorAssertPanics(result)
    THEN Outcome("panic", ZeroResult)
    ELSE IF IsErr(processResult(result, includeVectors).err)
    THEN Outcome("error", ZeroResult)
    ELSE Outcome("decoded", processResult(result, includeVectors).data)

DecodeTupleCall ==
    /\ pc = "call"
    /\ input.op = "decodeTuple"
    /\ CallReturn([sequential |-> sequentialOutcome(input.result, input.includeVectors),
                   concurrent |-> concurrentOutcome(input.result, input.includeVectors)])
    /\ UNCHANGED <<input, otherVars>>

InitTuple ==
    /\ CallInit
    /\ IndexInit
    /\ input \in {[op |-> "decodeTuple", result |-> r, includeVectors |-> iv] :
                     r \in Tuples, iv \in BOOLEAN}

NextTuple == DecodeTupleCall

SpecTuple == InitTuple /\ [][NextTuple]_vars

(***************************************************************************)
(* Claims about UpsertWithContext.                                         *)
(***************************************************************************)
\* the batch took the concurrent path
TookConcurrent == numWorkers > 0

\* the records with a validation defect of the kinds the specification lists:
\* blank id, dense vector of the wrong length, inconsistent sparse data
HasValidationDefect(arr) ==
    \E p \in DOMAIN arr.kind :
        \/ IsErr(ValidateItem(ItemAt(arr, p), p))
        \/ DimensionDiffers(ItemAt(arr, p).Vector)

\* C1: a concurrent upsert (11..1000 valid records) that returns nil has
\* issued one transport call per planned sub-batch and every call returned
\* status 200, whenever the cancellation signal fires.
C1_NilMeansEverySubBatchSent ==
    (pc = "done" /\ TookConcurrent /\ ret = Nil)
        => /\ ncalls = PlannedSubBatches(inputArray.n, batchSize)
           /\ n200 = ncalls

\* C2: a batch with a validation defect (blank id, wrong dense length,
\* inconsistent sparse data) returns an error and no transport call was
\* issued, on the sequential and on the concurrent path.
C2_DefectMeansNoTransportCall ==
    (pc = "done" /\ HasValidationDefect(inputArray))
        => IsErr(ret) /\ ncalls = 0

\* C3: on the concurrent path, if the work on at least one sub-batch
\* returned an error, UpsertWithContext returns a non-nil error.
C3_AnySubBatchErrorFailsCall ==
    (pc = "done" /\ TookConcurrent /\ nfailed > 0) => IsErr(ret)

\* C3 witness: a concurrent upsert has returned after a sub-batch failed
\* while other sub-batches got status 200.
C3_Witness ==
    pc = "done" /\ TookConcurrent /\ nfailed > 0 /\ n200 > 0 /\ IsErr(ret)

\* C5: a batch of more than MaxVectorsPerBatch records is rejected with the
\* batch-too-large error before any item is validated, anything is planned
\* or sent; a batch of exactly MaxVectorsPerBatch records is not rejected
\* for its size.
C5_SizeLimit ==
    /\ (inputArray.n > MaxVectorsPerBatch /\ pc # "entry")
          => /\ pc = "done"
             /\ ret = Err("BatchTooLarge", "")
             /\ ncalls = 0
             /\ ~TookConcurrent
    /\ (inputArray.n <= MaxVectorsPerBatch) => ret.kind # "BatchTooLarge"
    /\ (inputArray.n = MaxVectorsPerBatch /\ inputArray.kind = <<>> /\ pc # "entry")
          => pc = "conc"

\* C5 witness: a batch of 1001 records holding a defective record was
\* rejected for its size.
C5_Witness ==
    /\ pc = "done"
    /\ inputArray.n = MaxVectorsPerBatch + 1
    /\ HasValidationDefect(inputArray)
    /\ ret.kind = "BatchTooLarge"

\* the ids of the records in the request body of the slice sl, in order
PayloadIds(sl) ==
    [i \in 1..(sl.hi - sl.lo) |-> vectorBatch(inputArray, sl.lo, sl.hi)[i][1]]

\* the batch holds no record that fails validation or encoding
ValidBatch(arr) ==
    /\ ~IsErr(ValidateBatch(arr))
    /\ ~IsErr(EncodeErr(arr, 0, arr.n))

\* C6: for a valid batch of n <= 10 records the transport calls are fixed by
\* n: none and success for n = 0, exactly one call carrying the n records in
\* the caller's order for 1..10; 11 records is the smallest batch on the
\* concurrent path.
C6_SmallBatchCalls ==
    /\ (pc = "done" /\ ValidBatch(inputArray) /\ inputArray.n = 0)
          => ret = Nil /\ ncalls = 0
    /\ (pc = "done" /\ ValidBatch(inputArray) /\ inputArray.n \in 1..SequentialUpsertMax)
          => /\ ncalls = 1
             /\ \E sl \in sent :
                   /\ sent = {sl}
                   /\ PayloadIds(sl) = [i \in 1..inputArray.n |-> IdAt(i - 1, inputArray.n)]
    /\ TookConcurrent => inputArray.n > SequentialUpsertMax
    /\ (pc # "entry" /\ ValidBatch(inputArray)
        /\ inputArray.n = SequentialUpsertMax + 1) => TookConcurrent

\* C6 witness: a valid batch of exactly 10 records has been sent in one call.
C6_Witness ==
    /\ pc = "done"
    /\ inputArray.n = SequentialUpsertMax
    /\ ValidBatch(inputArray)
    /\ ncalls = 1
    /\ ret = Nil


(***************************************************************************)
(* Claims about QueryWithContext.                                          *)
(***************************************************************************)
\* the validation of the query is over
QueryLeftEntry == pc \in {"qCall", "qDecode", "qCollect", "done"}

SparseGiven(q) ==
    Len(q.sparseIndices) > 0 /\ Len(q.sparseIndices) = Len(q.sparseValues)

SparseAbsent(q) == q.sparseIndices = <<>> /\ q.sparseValues = <<>>

WellFormed(res) == \A p \in DOMAIN res.kind : res.kind[p] # "short"

\* C4: for a response of N > 50 well-formed tuples, whenever QueryWithContext
\* returns without error the output has exactly N entries and output[i] is the
\* decode of tuple i for every i, for every completion order of the workers
\* and also when the context is cancelled while tuples are still dispatched.
C4_DecodeKeepsEveryPosition ==
    (pc = "done" /\ IsLargeResponse(results.n) /\ WellFormed(results) /\ qret.err = Nil)
        => /\ Len(qret.results) = results.n
           /\ \A i \in 0..(results.n - 1) :
                 qret.results[i + 1] =
                     processResult(TupleAt(results, i), query.includeVectors).data

C9_DimensionMismatch ==
    /\ IsErr(normalizeVector(query.vector).err) <=> Len(query.vector) # Dimension
    /\ (QueryLeftEntry /\ Len(query.vector) # Dimension)
          => /\ pc = "done"
             /\ IsErr(qret.err)
             /\ ncalls = 0
             /\ (/\ query.k >= 1 /\ query.k <= MaxTopKAllowed
                 /\ query.ef >= 0 /\ query.ef <= MaxEfSearchAllowed
                 /\ Len(query.vector) > 0
                 /\ SparseAbsent(query) \/ SparseGiven(query))
                   => qret.err.kind = "DimensionMismatch"

C9_Witness ==
    /\ pc = "done"
    /\ Dimension > 0
    /\ Len(query.vector) = Dimension + 1
    /\ query.k = 10
    /\ query.ef = 128
    /\ SparseAbsent(query)
    /\ qret.err.kind = "DimensionMismatch"
    /\ ncalls = 0

\* C10: the dense vector of a query is optional: a query with non-empty,
\* equal-length sparse indices and values, no dense vector and valid k and ef,
\* on an index of declared dimension > 0, passes the local validation and
\* reaches the transport call; the only rejection for missing data is when
\* neither a dense vector nor sparse data is given.
C10_DenseVectorOptional ==
    (/\ QueryLeftEntry
     /\ Dimension > 0
     /\ query.vector = <<>>
     /\ SparseGiven(query)
     /\ query.k >= 1 /\ query.k <= MaxTopKAllowed
     /\ query.ef >= 0 /\ query.ef <= MaxEfSearchAllowed)
        => ncalls = 1 /\ qret.err.kind \notin {"NoData", "DimensionMismatch"}

(***************************************************************************)
(* Claims C11..C20.                                                        *)
(***************************************************************************)
\* the record has only one of sparse indices and values, or different lengths
SparseDefect(item) ==
    \/ (Len(item.SparseIndices) > 0) # (Len(item.SparseValues) > 0)
    \/ Len(item.SparseIndices) # Len(item.SparseValues)

SparseDefects(arr) == {p \in DOMAIN arr.kind : SparseDefect(ItemAt(arr, p))}

BlankIds(arr) == {p \in DOMAIN arr.kind : TrimSpace(ItemAt(arr, p).ID) = ""}

\* C11: upserting a batch in which some record has sparse indices and values
\* of different lengths, or only one of the two, returns a validation error
\* and makes no transport call; the error names the id of the first such
\* record in batch order (for a batch within the size limit in which no
\* record before that one has a blank id, the two checks the code makes first).
C11_SparseDefectNamesRecord ==
    (pc # "entry" /\ SparseDefects(inputArray) # {})
        => /\ pc = "done"
           /\ IsErr(ret)
           /\ ncalls = 0
           /\ ~TookConcurrent
           /\ LET first == SetMin(SparseDefects(inputArray))
              IN  (inputArray.n <= MaxVectorsPerBatch
                   /\ \A p \in BlankIds(inputArray) : p > first)
                     => /\ ret.kind \in {"SparseTogether", "SparseLength"}
                        /\ ret.ref = ItemAt(inputArray, first).ID
                        /\ ret = ValidateItem(ItemAt(inputArray, first), first)

C11_Witness ==
    /\ pc = "done"
    /\ inputArray.n = 12
    /\ DOMAIN inputArray.kind = {0, 11}
    /\ inputArray.kind[0] = "sparseLen"
    /\ inputArray.kind[11] = "onlyValues"
    /\ ret = Err("SparseLength", "0")
    /\ ncalls = 0

\* the positions of the tuples that have at least 5 positional fields
LongEnough(res) == {i \in 0..(res.n - 1) : Len(TupleAt(res, i)) >= 5}

\* C12: for a response of at most 50 tuples QueryWithContext returns no error
\* for malformed tuples: the output is exactly the decodes of the tuples with
\* at least 5 positional fields, in response order, so its length is the
\* number of such tuples; a response of exactly 50 tuples takes this path.
C12_SequentialDropsMalformed ==
    (pc = "done" /\ results.n <= 50)
        => /\ qret.err = Nil
           /\ dNumWorkers = 0
           /\ Len(qret.results) = Cardinality(LongEnough(results))
           /\ \A i \in LongEnough(results) :
                 qret.results[Cardinality({j \in LongEnough(results) : j <= i})] =
                     processResult(TupleAt(results, i), query.includeVectors).data

C12_Witness ==
    /\ pc = "done"
    /\ results.n = 50
    /\ DOMAIN results.kind = {25}
    /\ results.kind[25] = "short"
    /\ qret.err = Nil
    /\ Len(qret.results) = 49
    /\ qret.results[26].ID = "26"

C14_NoVectorUnlessRequested ==
    (pc = "done" /\ ~query.includeVectors)
        => \A j \in DOMAIN qret.results : qret.results[j].Vector = <<>>

C14_Witness ==
    /\ pc = "done"
    /\ ~query.includeVectors
    /\ results.n = 51
    /\ DOMAIN results.kind = {25}
    /\ results.kind[25] = "withVector"
    /\ qret.err = Nil
    /\ Len(qret.results) = 51
    /\ qret.results[26].ID = "25"
    /\ qret.results[26].Vector = <<>>

\* the table of the claim: status -> error kind
StatusTable(status) ==
    IF status = 200 THEN "nil"
    ELSE IF status = 400 THEN "APIError"
    ELSE IF status = 401 THEN "AuthenticationError"
    ELSE IF status = 402 THEN "SubscriptionError"
    ELSE IF status = 403 THEN "ForbiddenError"
    ELSE IF status = 404 THEN "NotFoundError"
    ELSE IF status = 409 THEN "ConflictError"
    ELSE IF status >= 500 /\ status <= 599 THEN "ServerError"
    ELSE "APIError"

\* C15: checkError maps every response status to an error kind by the table:
\* 200 no error; 400 bad request; 401 authentication; 402 subscription; 403
\* forbidden; 404 not found; 409 conflict; every status in 500..599 server
\* busy; every other status a generic API error carrying the status code.
C15_StatusTable ==
    (pc = "done" /\ input.op = "checkError" /\ input.bodyOk)
        => /\ output.kind = StatusTable(input.status)
           /\ output.kind = "APIError" => output.ref = ToString(input.status)

\* the typed errors of errors.go
TypedKinds == {"APIError", "AuthenticationError", "SubscriptionError", "ForbiddenError",
               "NotFoundError", "ConflictError", "ServerError"}

\* C16: when a sub-batch of a concurrent upsert fails with a classified
\* transport error (for example the authentication kind for status 401), the
\* error UpsertWithContext returns has that same typed error kind, as the
\* sequential path returns it for the same failure.
C16_ConcurrentKeepsErrorKind ==
    (pc = "done" /\ TookConcurrent /\ errors.len > 0 /\ errors.first.kind \in TypedKinds)
        => ret.kind = errors.first.kind

\* what the decode of the tuple at position i of res has to be: the plain
\* fields of the tuple, and no metadata or no filter where that cannot be decoded
ExpectedOutcome(res, i) ==
    LET k == IF i \in DOMAIN res.kind THEN res.kind[i] ELSE "plain"
    IN  [ID |-> ToString(i), Similarity |-> FOne - i, Distance |-> i,
         Meta |-> IF k \in {"badMeta", "badJson"} THEN "nil" ELSE "map",
         Filter |-> IF k = "badFilter" THEN "nil" ELSE "map",
         Norm |-> FOne, Vector |-> <<>>]

\* C17: decoding a result tuple never fails because of its metadata or filter:
\* if the metadata bytes cannot be decompressed or JSON-decoded, or the filter
\* string cannot be JSON-decoded, the outcome is still produced with its id,
\* similarity, distance and norm and with that field absent, on both decode
\* paths, and the other tuples of the response are decoded normally (every
\* position, unless a cancellation cut the concurrent dispatch short).
C17_MetaAndFilterNonFatal ==
    (pc = "done" /\ \A p \in DOMAIN results.kind : results.kind[p] \in FieldKinds)
        => /\ qret.err = Nil
           /\ Len(qret.results) = results.n
           /\ (~ctxDone \/ ~IsLargeResponse(results.n))
                 => \A i \in 0..(results.n - 1) :
                       qret.results[i + 1] = ExpectedOutcome(results, i)

C17_Witness ==
    /\ pc = "done"
    /\ ~ctxDone
    /\ results.n = 51
    /\ DOMAIN results.kind = {25}
    /\ results.kind[25] = "badJson"
    /\ qret.err = Nil
    /\ qret.results[26].ID = "25"
    /\ qret.results[26].Meta = "nil"
    /\ qret.results[26].Filter = "map"
    /\ qret.results[27].Meta = "map"

\* C18: whenever ListIndexes returns without error the returned list is not
\* nil: when the server reports no indexes or the body lacks the index list,
\* an empty list is returned instead of nil.
C18_ListNeverNil ==
    (pc = "done" /\ input.op = "ListIndexes" /\ output.err = Nil)
        => /\ ~output.list.nil
           /\ input.body.indixes.t = "list" => output.list.l = input.body.indixes.l
           /\ input.body.indixes.t # "list" => output.list.l = <<>>

C18_Witness ==
    /\ pc = "done"
    /\ input.op = "ListIndexes"
    /\ input.body.kind = "object"
    /\ input.body.indixes.t = "absent"
    /\ output.err = Nil
    /\ output.list = Slice(<<>>)

\* C19: CreateIndex accepts an index name made only of letters, digits and
\* underscores whose length is between 1 and 48 inclusive, and rejects, before
\* any network call, the empty name, names with any other character and names
\* longer than 48 characters.
C19_IndexNameLength ==
    (pc = "done" /\ input.op = "CreateIndex")
        => IF input.name.odd = 0 /\ input.name.len >= 1 /\ input.name.len <= 48
           THEN output.err.kind # "InvalidName"
           ELSE output.err.kind = "InvalidName" /\ ncalls = 0

\* the content of the slice normalizeVector returned
Returned(out) == out.heap[out.addr]

IsUnitBasis(v) ==
    \E p \in DOMAIN v : v[p] = 1 /\ \A i \in DOMAIN v : i # p => v[i] = 0

IsZero(v) == \A i \in DOMAIN v : v[i] = 0

\* C20: normalizeVector never modifies the caller's input vector; for a
\* vector of the declared dimension it returns the input components unchanged
\* with norm 1 when the space is not cosine or when every component is 0, and
\* in cosine space a unit basis vector is returned with the same components
\* and norm 1.
C20_NormalizeLeavesInput ==
    (pc = "done" /\ input.op = "normalizeVector")
        => /\ output.heap[CallerAddr] = input.vector
           /\ (/\ Len(input.vector) = Dimension
               /\ \/ SpaceType # "cosine"
                  \/ IsZero(input.vector)
                  \/ IsUnitBasis(input.vector))
                 => /\ output.err = Nil
                    /\ Returned(output) = input.vector
                    /\ output.norm = 1
           /\ output.err = Nil => Returned(output) = normalizeVector(input.vector).vector

C20_Witness ==
    /\ pc = "done"
    /\ input.op = "normalizeVector"
    /\ SpaceType = "cosine"
    /\ Dimension = 2
    /\ input.vector = <<2, 0>>
    /\ output.err = Nil
    /\ output.norm = 2
    /\ Returned(output) = <<1, 0>>
    /\ output.heap[CallerAddr] = <<2, 0>>

\* the smallest integer that is at least a / b
Ceil(a, b) == CHOOSE q \in 0..a : q * b >= a /\ (q - 1) * b < a

\* C21: for every batch size n in 11..1000 and every CPU count c >= 1 the
\* concurrent upsert plans workerCount = min(c, ceil(n/2)) and
\* subBatchSize = min(100, ceil(n / workerCount)), and both are at least 1.
C21_WorkerPlan ==
    (pc = "conc" /\ inputArray.n \in 11..1000 /\ numCPU >= 1)
        => /\ numWorkers = Min(numCPU, Ceil(inputArray.n, 2))
           /\ numWorkers >= 1
           /\ batchSize = Min(100, Ceil(inputArray.n, numWorkers))
           /\ batchSize >= 1

C21_Witness ==
    /\ pc = "conc"
    /\ inputArray.n = 11
    /\ numCPU = 8
    /\ numWorkers = 6
    /\ batchSize = 2

\* the sub-batches taken from workChan whose request has not returned yet
InFlight == BagCardinality([w \in {x \in BagToSet(worker) : x.st = "call"} |-> worker[w]])

\* C22: the concurrent upsert starts exactly workerCount workers, workerCount
\* never exceeds the CPU count, and the number of sub-batches that were taken
\* from the work queue and whose transport call has not returned is at most
\* workerCount in every reachable state, also when the 100-record cap makes
\* the number of sub-batches larger than workerCount.
C22_WorkersBounded ==
    TookConcurrent
        => /\ numWorkers = PlanWorkers(inputArray.n, numCPU)
           /\ BagCardinality(worker) = numWorkers
           /\ numWorkers <= numCPU
           /\ InFlight <= numWorkers

C22_Witness ==
    /\ pc = "conc"
    /\ PlannedSubBatches(inputArray.n, batchSize) > numWorkers
    /\ numWorkers = 2
    /\ InFlight = numWorkers
    /\ workChan # <<>>

\* C23: once the caller's cancellation signal has fired during a concurrent
\* upsert, the dispatcher puts no further sub-batch on the work queue.
C23_NoDispatchAfterCancel ==
    [][(ctxDone /\ pc = "conc") => Len(workChan') <= Len(workChan)]_vars

\* C24: the concurrent upsert returns to its caller only after every worker
\* has finished and every reported sub-batch outcome has been collected: in
\* no reachable state has UpsertWithContext returned while a worker is still
\* processing a sub-batch or a reported outcome is still unread.
C24_ReturnsAfterAllWorkers ==
    (pc = "done" /\ TookConcurrent)
        => /\ \A w \in BagToSet(worker) : w.st = "exit"
           /\ BagCardinality(worker) = numWorkers
           /\ dispSt = "exit"
           /\ workChan = <<>>
           /\ resultChan = <<>>
           /\ resultClosed

\* a call that returned after an early sub-batch failed and later ones ran
C24_Witness ==
    /\ pc = "done"
    /\ TookConcurrent
    /\ PlannedSubBatches(inputArray.n, batchSize) > numWorkers
    /\ errors.len = 1
    /\ errors.first.kind = "CompressMetadata"
    /\ 0 \in DOMAIN inputArray.kind
    /\ n200 = PlannedSubBatches(inputArray.n, batchSize) - 1
    /\ \A w \in BagToSet(worker) : w.st = "exit"

\* C25: when several sub-batches of a concurrent upsert fail, the error
\* returned is the one the collector received first, in the order in which
\* the workers reported (not necessarily that of the lowest-index sub-batch);
\* it is always an error some sub-batch of this call reported, and the errors
\* of the other failed sub-batches are discarded.  (The collector hands the
\* chosen error back inside fmt.Errorf("upsert failed: %v", ...).)
C25_FirstReceivedErrorReturned ==
    /\ [](TookConcurrent /\ pc = "done"
            => /\ errors.len = nfailed
               /\ ret = IF nfailed > 0 THEN WrapV(errors.first) ELSE Nil)
    /\ [][pc = "conc" /\ resultChan # <<>> /\ errors' # errors
            => /\ IsErr(Head(resultChan))
               /\ errors'.len = errors.len + 1
               /\ errors'.first = IF errors.len = 0 THEN Head(resultChan) ELSE errors.first]_vars

\* sub-batch [0:6) failed in its request and sub-batch [6:11) failed while
\* encoding; the error of the second one was received first and is returned
C25_Witness ==
    /\ pc = "done"
    /\ inputArray.n = 11
    /\ numWorkers = 2
    /\ inputArray.kind = (10 :> "badMeta")
    /\ sent = {[lo |-> 0, hi |-> 6]}
    /\ n200 = 0
    /\ nfailed = 2
    /\ errors.len = 2
    /\ ret = WrapV(Err("CompressMetadata", ""))

\* the sub-batches the plan cuts a batch of n records into
Partition(n, bs) ==
    {[lo |-> k * bs, hi |-> Min((k + 1) * bs, n)] : k \in 0..(PlannedSubBatches(n, bs) - 1)}

\* C26: the sub-batches of a concurrent upsert are contiguous, non-empty,
\* pairwise disjoint slices of at most subBatchSize records that cover the
\* input in the caller's order and are queued in that order; when the
\* cancellation signal does not fire, each sub-batch is taken by exactly one
\* worker and gets exactly one transport attempt, never a second one,
\* whether or not other sub-batches fail.
C26_EachSubBatchSentOnce ==
    /\ [][Len(workChan') > Len(workChan)
            => LET b == workChan'[Len(workChan')]
               IN  /\ b.lo = dispI
                   /\ b.lo < b.hi
                   /\ b.hi <= inputArray.n
                   /\ b.hi - b.lo <= batchSize
                   /\ \/ dispI' = b.hi
                      \/ b.hi = inputArray.n /\ dispI' >= inputArray.n]_vars
    /\ [](TookConcurrent /\ pc = "done" /\ ~ctxDone
            => /\ sent = Partition(inputArray.n, batchSize)
               /\ ncalls = Cardinality(sent))

HasSparse(item) == Len(item.SparseIndices) > 0 /\ Len(item.SparseValues) > 0

\* C27: for the same ordered input records, concatenating the wire tuples of
\* the sub-batch payloads of the concurrent path in dispatch order gives
\* exactly the tuple sequence the sequential path encodes for the whole
\* batch: each record yields the same tuple (id, compressed metadata, filter
\* string, norm, normalized vector, and the two sparse elements exactly when
\* the record has sparse data) on either path.
C27_SameWireTuples ==
    (pc = "done" /\ input.op = "encode")
        => /\ output.concurrent = output.sequential
           /\ Len(output.concurrent) = input.arr.n
           /\ \A p \in Positions(input.arr.n) :
                 LET item == ItemAt(input.arr, p)
                     t == output.concurrent[p + 1]
                 IN  /\ t[1] = item.ID
                     /\ t[2] = JsonZip(item.Meta)
                     /\ t[4] = normalizeVector(item.Vector).norm
                     /\ t[5] = normalizeVector(item.Vector).vector
                     /\ Len(t) = IF HasSparse(item) THEN 7 ELSE 5
                     /\ HasSparse(item) => t[6] = item.SparseIndices /\ t[7] = item.SparseValues

C27_Witness ==
    /\ pc = "done"
    /\ input.op = "encode"
    /\ input.arr.n = 301
    /\ input.cpus = 2
    /\ output.slices = 4
    /\ input.arr.kind = (150 :> "sparse" @@ 300 :> "sparse")
    /\ Len(output.concurrent[151]) = 7
    /\ Len(output.concurrent[150]) = 5
    /\ output.concurrent[301][1] = "300"

\* C28: provided every transport call eventually returns, a concurrent
\* upsert always terminates under fair scheduling, for every mix of
\* succeeding and failing sub-batches, with more sub-batches than the result
\* channel's capacity and with cancellation at any moment: the dispatcher,
\* all workers and the collector finish and UpsertWithContext returns.
C28_ConcurrentUpsertTerminates ==
    (pc = "conc")
        ~> (/\ pc = "done"
            /\ dispSt = "exit"
            /\ \A w \in BagToSet(worker) : w.st = "exit"
            /\ resultClosed)

\* a returned call that was cancelled half-way, with more sub-batches than
\* the result channel holds
C28_Witness ==
    /\ pc = "done"
    /\ TookConcurrent
    /\ ctxDone
    /\ PlannedSubBatches(inputArray.n, batchSize) > numWorkers
    /\ ncalls = PlannedSubBatches(inputArray.n, batchSize)
    /\ n200 >= 1
    /\ nfailed >= 1
    /\ dispSt = "exit"
    /\ resultClosed

\* every goroutine of the concurrent decoding has finished
DecodeFinished ==
    /\ dDispSt = "exit"
    /\ dWorkChan = <<>>
    /\ \A w \in BagToSet(dWorker) : w.st = "exit"
    /\ dResultClosed

\* C29: after the concurrent result decode returns, whether normally or
\* early on the first malformed tuple, every decode worker, the dispatcher
\* and the channel-closing task eventually terminate under fair scheduling:
\* no worker stays blocked sending to the result channel and none stays
\* blocked receiving from the work channel.
C29_DecodeGoroutinesTerminate ==
    (pc = "done" /\ dNumWorkers > 0) ~> DecodeFinished

\* the decoding returned early on the short tuple at position 0, and the
\* workers then decoded and sent every other tuple before they finished
C29_Witness ==
    /\ pc = "done"
    /\ results.n = 51
    /\ results.kind = (0 :> "short")
    /\ qret.err.kind = "InvalidResultFormat"
    /\ dSends = results.n
    /\ DecodeFinished

\* C30: decoding is total on tuples with at least 5 positional elements:
\* for every combination of element kinds, including a sixth element that is
\* present but not a list, and for either value of the include-vectors flag,
\* both the sequential and the concurrent decode path produce an outcome
\* without crashing, and they agree on whether a given tuple decodes.
C30_DecodeTotal ==
    (pc = "done" /\ input.op = "decodeTuple" /\ Len(input.result) >= 5)
        => /\ output.sequential.kind # "panic"
           /\ output.concurrent.kind # "panic"
           /\ (output.sequential.kind = "decoded") <=> (output.concurrent.kind = "decoded")

=============================================================================
